---- MODULE Spec2Model ----
(***************************************************************************)
(* Streaming swap-metrics aggregation: the token classifier, the per-event *)
(* fold of the three aggregation loops (packages/api/src/swapMetrics.ts,   *)
(* the serverless copy in packages/api/api/npro-summary.ts and             *)
(* computeFeeLeaders in packages/api/src/feeLeaders.ts), the page loop     *)
(* around them and the retrying PostHog query (posthog.ts, hogql), the      *)
(* price resolver with its cache (prices.ts), the ranked lists of the      *)
(* reports and the cached entry point getFeeLeaders (feeLeaders.ts).       *)
(*                                                                         *)
(* Representation notes.                                                   *)
(*  - Instants are integers in SECONDS since the epoch (the code uses      *)
(*    milliseconds; every duration is divided by 1000 so that the values   *)
(*    fit the model checker's integers).  Comparisons are unchanged.       *)
(*  - A Decimal is the integer number of thousandths (VolScale) so that    *)
(*    the division by 1000 of the TON correction stays exact.              *)
(*  - A JS Map is a sequence of <<key, value>> entries in insertion order. *)
(*  - Strings are TLA+ strings; toLowerCase, trim, startsWith and split    *)
(*    are computed over the finite universe of identifiers of the model.   *)
(***************************************************************************)
EXTENDS Integers, Sequences, FiniteSets, TLC

\* ------------------------------------------------------------------ bounds
MaxFold == 2        \* events folded in the fold-only specification
MaxStream == 3      \* longest event stream of a paginated run
MaxOrder == 3       \* events folded in every order
MaxRuns == 2        \* calls of the aggregation function served one after another
MaxPair == 2        \* longest event stream of two interleaved runs
MaxRank == 32       \* events (and distinct keys) of the streams that are ranked
MaxCalls == 3       \* calls of getFeeLeaders, which may overlap

\* ------------------------------------------------------- program constants
NULL == "<null>"                \* JS null / undefined
VolScale == 1000                \* thousandths of a USD per Decimal unit
H24 == 24 * 60 * 60
H48 == 48 * 60 * 60
D7 == 7 * 24 * 60 * 60
D14 == 14 * 24 * 60 * 60
D30 == 30 * 24 * 60 * 60
D60 == 60 * 24 * 60 * 60
tonFixDate == 1770249600        \* 2026-02-05T00:00:00Z
Retries == 3                    \* hogql(query, retries = 3)

\* ------------------------------------------------------- token classifier
baseMap ==
  ("zcash" :> "zcash") @@
  ("melania" :> "melania-meme") @@
  ("bera" :> "berachain-bera") @@
  ("aurora" :> "aurora-near") @@
  ("shib" :> "shiba-inu") @@
  ("gmx" :> "gmx") @@
  ("mog" :> "mog-coin") @@
  ("brett" :> "based-brett") @@
  ("sweat" :> "sweatcoin") @@
  ("turbo" :> "turbo") @@
  ("wif" :> "dogwifcoin") @@
  ("bome" :> "book-of-meme") @@
  ("blackdragon" :> "black-dragon") @@
  ("shitzu" :> "shitzu") @@
  ("purge" :> "forgive-me-father") @@
  ("brrr" :> "burrow") @@
  ("gno" :> "gnosis") @@
  ("cow" :> "cow-protocol") @@
  ("safe" :> "safe") @@
  ("usdc" :> "usd-coin") @@
  ("trump" :> "official-trump") @@
  ("near" :> "near") @@
  ("usdt" :> "tether") @@
  ("dai" :> "dai") @@
  ("eth" :> "ethereum") @@
  ("btc" :> "bitcoin") @@
  ("pepe" :> "pepe") @@
  ("link" :> "chainlink") @@
  ("uni" :> "uniswap") @@
  ("arb" :> "arbitrum") @@
  ("aave" :> "aave") @@
  ("sol" :> "solana") @@
  ("doge" :> "dogecoin") @@
  ("xrp" :> "ripple") @@
  ("abg" :> "abg-966.meme-cooking.near") @@
  ("ref" :> "token.v2.ref-finance.near") @@
  ("mpdao" :> "mpdao-token.near") @@
  ("hapi" :> "d9c2d319cd7e6177336b0a9c93c21cb48d84fb54.factory.bridge.near") @@
  ("score" :> "score.aidols.near") @@
  ("kaito" :> "kaito") @@
  ("trx" :> "tron") @@
  ("tron" :> "tron") @@
  ("cbbtc" :> "coinbase-wrapped-btc") @@
  ("bnb" :> "binancecoin") @@
  ("pol" :> "matic-network") @@
  ("sui" :> "sui") @@
  ("gnosis" :> "gnosis") @@
  ("aptos" :> "aptos") @@
  ("cardano" :> "cardano") @@
  ("kat" :> "kat") @@
  ("npro" :> "npro") @@
  ("public" :> "public-ai") @@
  ("rhea" :> "rhea") @@
  ("wbtc" :> "wrapped-bitcoin") @@
  ("ltc" :> "litecoin") @@
  ("itlx" :> "itlx") @@
  ("near-native" :> "near") @@
  ("noear" :> "noear-324.meme-cooking.near") @@
  ("gnear" :> "gnear-229.meme-cooking.near") @@
  ("eth.bridge.near" :> "ethereum") @@
  ("usdt.tether-token.near" :> "tether") @@
  ("token.sweat" :> "sweatcoin") @@
  ("token.burrow.near" :> "burrow") @@
  ("blackdragon.tkn.near" :> "black-dragon") @@
  ("token.0xshitzu.near" :> "shitzu") @@
  ("score.aidols.near" :> "score.aidols.near") @@
  ("zec.omft.near" :> "zcash") @@
  ("xrp.omft.near" :> "ripple") @@
  ("kat.token0.near" :> "kat") @@
  ("a35923162c49cf95e6bf26623385eb431ad920d3.factory.bridge.near" :> "matic-network") @@
  ("npro.nearmobile.near" :> "npro") @@
  ("token.publicailab.near" :> "public-ai") @@
  ("token.rhealab.near" :> "rhea") @@
  ("itlx.intellex_xyz.near" :> "itlx") @@
  ("mpdao-token.near" :> "mpdao-token.near") @@
  ("token.v2.ref-finance.near" :> "token.v2.ref-finance.near") @@
  ("17208628f84f5d6ad33f0da3bbbeb27ffcb398eac501a31bd6ad2011e36133a1" :> "17208628f84f5d6ad33f0da3bbbeb27ffcb398eac501a31bd6ad2011e36133a1") @@
  ("aaaaaa20d9e0e2461697782ef11675f668207961.factory.bridge.near" :> "aaaaaa20d9e0e2461697782ef11675f668207961.factory.bridge.near") @@
  ("d9c2d319cd7e6177336b0a9c93c21cb48d84fb54.factory.bridge.near" :> "d9c2d319cd7e6177336b0a9c93c21cb48d84fb54.factory.bridge.near")

nativeToIntentMap ==
  ("near-native" :> "intents:near") @@
  ("usdt.tether-token.near" :> "intents:usdt") @@
  ("17208628f84f5d6ad33f0da3bbbeb27ffcb398eac501a31bd6ad2011e36133a1" :> "intents:usdc") @@
  ("eth.bridge.near" :> "intents:eth") @@
  ("zec.omft.near" :> "intents:zcash") @@
  ("xrp.omft.near" :> "intents:xrp") @@
  ("a35923162c49cf95e6bf26623385eb431ad920d3.factory.bridge.near" :> "intents:pol") @@
  ("npro.nearmobile.near" :> "intents:npro") @@
  ("kat.token0.near" :> "intents:kat") @@
  ("token.publicailab.near" :> "intents:public") @@
  ("token.rhealab.near" :> "intents:rhea") @@
  ("itlx.intellex_xyz.near" :> "intents:itlx") @@
  ("token.sweat" :> "intents:sweat") @@
  ("token.burrow.near" :> "intents:brrr") @@
  ("blackdragon.tkn.near" :> "intents:blackdragon") @@
  ("token.0xshitzu.near" :> "intents:shitzu") @@
  ("token.v2.ref-finance.near" :> "intents:ref") @@
  ("mpdao-token.near" :> "intents:mpdao") @@
  ("score.aidols.near" :> "intents:score") @@
  ("d9c2d319cd7e6177336b0a9c93c21cb48d84fb54.factory.bridge.near" :> "intents:hapi") @@
  ("aaaaaa20d9e0e2461697782ef11675f668207961.factory.bridge.near" :> "intents:aurora")

\* String.prototype.toLowerCase over the identifiers of the model: the only
\* identifiers with upper-case letters are the ones listed here.
toLowerCase(s) ==
  CASE s = "Intents:NEAR" -> "intents:near"
    [] s = "NEAR-NATIVE" -> "near-native"
    [] s = "Intents:USDC" -> "intents:usdc"
    [] OTHER -> s

\* String.prototype.trim over the identifiers of the model.
trim(s) ==
  CASE s = " intents:usdc " -> "intents:usdc"
    [] s = " near-native" -> "near-native"
    [] OTHER -> s

\* Symbols that can follow the "intents:" prefix in the model.
IntentSymbols == DOMAIN baseMap \cup {"unknown", "ton"}

\* cleaned.startsWith('intents:')
startsWithIntents(s) == \E x \in IntentSymbols : s = "intents:" \o x

\* cleaned.replace(/^intents:/, '')
stripIntents(s) == CHOOSE x \in IntentSymbols : s = "intents:" \o x

\* Dynamically named meme-cooking ids "<symbol>-<n>.meme-cooking.near".
MemeSymbols == {"gnear", "noear", "abg", "lonk"}
MemeNumbers == {"229", "324", "966", "1"}

\* cleaned.includes('.meme-cooking.near')
includesMemeCooking(s) ==
  \E y \in MemeSymbols, n \in MemeNumbers : s = y \o "-" \o n \o ".meme-cooking.near"

\* cleaned.split('-')[0]
firstDashSegment(s) ==
  CHOOSE y \in MemeSymbols :
    \E n \in MemeNumbers : s = y \o "-" \o n \o ".meme-cooking.near"

\* Reverse mapping (intent -> native), keyed by the lower-cased intent id.
intentToNativeMap ==
  [i \in {toLowerCase(nativeToIntentMap[n]) : n \in DOMAIN nativeToIntentMap} |->
     CHOOSE n \in DOMAIN nativeToIntentMap : toLowerCase(nativeToIntentMap[n]) = i]

\* Record<string,string> lookup: the value, or NULL (undefined) when absent.
Lookup(map, k) == IF k \in DOMAIN map THEN map[k] ELSE NULL

\* A test that recognises deposits only (no reverse lookup).
isDepositWithdrawPair_depositOnly(tokenInId, tokenOutId) ==
  LET tokenIn == toLowerCase(tokenInId)
      tokenOut == toLowerCase(tokenOutId)
      intentEquivalent == Lookup(nativeToIntentMap, tokenIn)
  IN  intentEquivalent # NULL /\ toLowerCase(intentEquivalent) = tokenOut

isDepositWithdrawPair(tokenInId, tokenOutId) ==
  LET tokenIn == toLowerCase(tokenInId)
      tokenOut == toLowerCase(tokenOutId)
      intentEquivalent == Lookup(nativeToIntentMap, tokenIn)
      nativeEquivalent == Lookup(intentToNativeMap, tokenIn)
  IN  IF intentEquivalent # NULL /\ toLowerCase(intentEquivalent) = tokenOut
        THEN TRUE
      ELSE IF nativeEquivalent # NULL /\ toLowerCase(nativeEquivalent) = tokenOut
        THEN TRUE
      ELSE FALSE

intentsToPriceId(intentsTokenId) ==
  IF intentsTokenId = NULL \/ intentsTokenId = "" THEN NULL
  ELSE
    LET lowered == toLowerCase(trim(intentsTokenId))
        cleaned == IF startsWithIntents(lowered) THEN stripIntents(lowered) ELSE lowered
        directMatch == Lookup(baseMap, cleaned)
    IN  IF directMatch # NULL THEN directMatch
        ELSE IF includesMemeCooking(cleaned)
          THEN Lookup(baseMap, firstDashSegment(cleaned))
        ELSE NULL

\* ------------------------------------------------------------ decimal.js
\* new Decimal(str): the value of the amount strings of the model; any other
\* string ("abc", the empty string) makes the constructor throw.
DecimalValue == ("100" :> 100) @@ ("2" :> 2) @@ ("0" :> 0) @@ ("-5" :> -5)

DecimalParses(str) == str \in DOMAIN DecimalValue

\* v ?? d
Coalesce(v, d) == IF v = NULL THEN d ELSE v

\* ------------------------------------------------------------ JS Map
MapKeys(m) == {m[i][1] : i \in DOMAIN m}
MapHas(m, k) == k \in MapKeys(m)
MapIndex(m, k) == CHOOSE i \in DOMAIN m : m[i][1] = k
MapGet(m, k) == m[MapIndex(m, k)][2]
\* A set that forgets every other key.
MapSet_forgetful(m, k, v) == <<<<k, v>>>>

\* map.set(k, v): an existing key keeps its position, a new key goes last.
MapSet(m, k, v) ==
  IF MapHas(m, k) THEN [m EXCEPT ![MapIndex(m, k)] = <<k, v>>]
  ELSE Append(m, <<k, v>>)
\* A get-or-create that starts from a fresh entry every time.
MapGetOr_fresh(m, k, fresh) == fresh

\* get-or-create: the entry of the key, or the fresh entry the helper inserts
MapGetOr(m, k, fresh) == IF MapHas(m, k) THEN MapGet(m, k) ELSE fresh

\* ------------------------------------------------------------------ state
VARIABLES
  variant,       \* which aggregation loop runs: "swapMetrics" (src/swapMetrics.ts),
                 \* "nproSummary" (api/npro-summary.ts) or "feeLeaders" (src/feeLeaders.ts)
  useIn,         \* cfg.VOLUME_SIDE === 'in'
  limit,         \* cfg.BATCH_SIZE
  maxEvents,     \* cfg.MAX_EVENTS
  now,           \* Date.now() captured once at run start
  prices,        \* the table returned by fetchPricesOnce: price id -> price
  userLists,     \* feeLeaders: premium / ambassador account sets
  metrics,       \* global window accumulators
  feeSwaps,      \* fee-generating swap totals
  tradingPairs,  \* Map pairKey -> PairMetrics
  feeSwapPairs,  \* Map pairKey -> PairMetrics (fee-generating only)
  accounts,      \* Map accountId -> AccountMetrics (feeLeaders: AccountFeeData)
  diags,         \* Diagnostics
  stream,        \* the event source: the filtered events in ascending order
  offset,        \* OFFSET of the next page request
  processed,     \* events counted against MAX_EVENTS
  batchCount,    \* feeLeaders: pages received so far
  batch,         \* the page being folded
  idx,           \* position of the next event of the page (fold-only: events folded)
  pc,            \* control point of the run
  attempt,       \* hogql: 1-based number of the HTTP attempt in flight (0: none)
  delays,        \* hogql: the delays slept before the retries of the current page
  requests,      \* history: <<offset, limit>> of every page request issued
  examined,      \* history: stream positions whose event entered the per-event fold
  ev,            \* the last event that entered the per-event fold
  lastError,     \* the last HTTP failure received
  result,        \* what the run returned: NULL, a report or an error
  clock,         \* Date.now(): the wall clock of the process
  priceCache,    \* prices module: the cached table and its timestamp, or unset
  map,           \* fetchPricesOnce: the table under construction
  priceLog,      \* history: every request sent to a price source
  other,         \* the locals of the run suspended at an await point
  self,          \* the number of the run that is executing
  memoryCache,   \* feeLeaders.ts: the in-memory report and its timestamp, or unset
  cacheFile,     \* feeLeaders.ts: the content of CACHE_FILE, or absent
  calls          \* the calls of getFeeLeaders: position, outcome, completion instant

accVars == <<metrics, feeSwaps, tradingPairs, feeSwapPairs, accounts, diags, processed>>
priceVars == <<clock, priceCache, map, priceLog>>
runVars == <<other, self>>
leaderVars == <<memoryCache, cacheFile, calls>>
cfgVars == <<variant, useIn, limit, maxEvents, now, prices, userLists, stream,
             priceVars, runVars, leaderVars>>
loopVars == <<offset, batchCount, batch, idx, pc, requests, examined, result>>
httpVars == <<attempt, delays, lastError>>
vars == <<cfgVars, accVars, loopVars, httpVars, ev>>

\* --------------------------------------------------------- accumulators
TM0 == [swaps |-> 0, volumeUSD |-> 0]

metrics0 ==
  [allTime |-> TM0, last24h |-> TM0, previous24h |-> TM0, last7d |-> TM0,
   previous7d |-> TM0, last30d |-> TM0, previous30d |-> TM0]

feeSwaps0 == [allTime |-> TM0, last24h |-> TM0, last7d |-> TM0, last30d |-> TM0]

diags0 == [unmappedIntentTokenIds |-> {}, priceIdMissing |-> {}, badAmounts |-> 0]

PairMetrics0 == [swaps |-> 0, volumeUSD |-> 0, last24h |-> TM0, last7d |-> TM0, last30d |-> TM0]

NproPairMetrics0 == [swaps |-> 0, volumeUSD |-> 0, last24h |-> TM0]

AccountMetrics0 ==
  [swaps |-> 0, volumeUSD |-> 0, feeSwaps |-> 0, feeVolumeUSD |-> 0,
   last24h |-> TM0, last7d |-> TM0, last30d |-> TM0]

\* Fee rates in ten-thousandths: 0.88%, 0.66%, 0.22%.
FEE_RATES == [basic |-> 88, ambassador |-> 66, premium |-> 22]

Periods0 == [allTime |-> 0, last24h |-> 0, last7d |-> 0, last30d |-> 0]

getUserTier(accountId, lists) ==
  LET lowerId == toLowerCase(accountId)
  IN  IF lowerId \in lists.premium THEN "premium"
      ELSE IF lowerId \in lists.ambassador THEN "ambassador"
      ELSE "basic"

AccountFeeData0(accountId) ==
  [accountId |-> accountId, tier |-> getUserTier(accountId, userLists),
   fees |-> Periods0, volumeUSD |-> Periods0, swaps |-> Periods0]

\* timeFrames[w] = now - w
timeFrames(w) == now - w

\* A 7-day test that compares with the 24-hour boundary.
inCurrent_wrongFrame(eventTime, w) ==
  eventTime >= timeFrames(IF w = D7 THEN H24 ELSE w)

\* eventTime >= timeFrames[w]
inCurrent(eventTime, w) == eventTime >= timeFrames(w)

\* A previous-window test without the upper bound.
inPrevious_noUpper(eventTime, w2, w) == eventTime >= timeFrames(w2)

\* swapMetrics.ts: eventTime >= timeFrames[2w] && eventTime < timeFrames[w]
inPrevious(eventTime, w2, w) == eventTime >= timeFrames(w2) /\ eventTime < timeFrames(w)

\* npro-summary.ts: the else-if branch of the current-window test
inPreviousElse(eventTime, w2, w) == ~(eventTime >= timeFrames(w)) /\ eventTime >= timeFrames(w2)

\* An accumulator that keeps the last contribution instead of the sum.
addIf_overwrite(cond, tm, v) ==
  IF cond THEN [swaps |-> tm.swaps + 1, volumeUSD |-> v] ELSE tm

\* x.swaps++ ; x.volumeUSD = x.volumeUSD.plus(v), when the condition holds
addIf(cond, tm, v) ==
  IF cond THEN [swaps |-> tm.swaps + 1, volumeUSD |-> tm.volumeUSD + v] ELSE tm

pairKey(tokenA, tokenB) == tokenA \o " -> " \o tokenB

\* The valued leg of an event.
amountStrOf(e) == Coalesce(IF useIn THEN e.amount_in ELSE e.amount_out, "0")
tokenIdOf(e) == Coalesce(IF useIn THEN e.token_in_id ELSE e.token_out_id, "")

\* A correction that also covers the cutover instant itself.
tonCorrected_inclusive(priceId, eventTime) ==
  priceId = "the-open-network" /\ eventTime <= tonFixDate

\* amount.times(price), with the TON correction of swapMetrics.ts
tonCorrected(priceId, eventTime) == priceId = "the-open-network" /\ eventTime < tonFixDate

volumeOf(amount, priceId, eventTime) ==
  LET v == amount * prices[priceId] * VolScale
  IN  IF tonCorrected(priceId, eventTime) THEN v \div 1000 ELSE v

\* ------------------------------------------------ per-event fold (3 loops)
\* A fee swap that ignores the deposit/withdraw exclusion.
isFeeSwap_noExclusion(tokenInId, tokenOutId) == tokenInId # "" /\ tokenOutId # ""

\* swapMetrics.ts: `tokenInId && tokenOutId && !isDepositWithdrawPair(...)`,
\* the condition of every fee-eligible accumulator.
isFeeSwap(tokenInId, tokenOutId) ==
  tokenInId # "" /\ tokenOutId # "" /\ ~isDepositWithdrawPair(tokenInId, tokenOutId)

\* swapMetrics.ts, body of `for (const ev of batch)` after the MAX_EVENTS test.
foldSwapMetrics(e) ==
  LET amountStr == amountStrOf(e)
      tokenId == tokenIdOf(e)
      tokenInId == Coalesce(e.token_in_id, "")
      tokenOutId == Coalesce(e.token_out_id, "")
      accountId == Coalesce(e.account_id, "")
      eventTime == e.timestamp
  IN
  IF ~DecimalParses(amountStr)
  THEN \* catch { diags.badAmounts++; continue; }
    /\ diags' = [diags EXCEPT !.badAmounts = @ + 1]
    /\ UNCHANGED <<metrics, feeSwaps, tradingPairs, feeSwapPairs, accounts, processed>>
  ELSE
    LET amount == DecimalValue[amountStr]
        priceId == intentsToPriceId(tokenId)
        priced == priceId # NULL /\ priceId \in DOMAIN prices
        v == IF priced THEN volumeOf(amount, priceId, eventTime) ELSE 0
        isPair == tokenInId # "" /\ tokenOutId # ""
        isFee == isFeeSwap(tokenInId, tokenOutId)
        bumpPair(pm) ==
          [swaps |-> pm.swaps + 1, volumeUSD |-> pm.volumeUSD + v,
           last24h |-> addIf(inCurrent(eventTime, H24), pm.last24h, v),
           last7d |-> addIf(inCurrent(eventTime, D7), pm.last7d, v),
           last30d |-> addIf(inCurrent(eventTime, D30), pm.last30d, v)]
        bumpAccount(am) ==
          [swaps |-> am.swaps + 1, volumeUSD |-> am.volumeUSD + v,
           feeSwaps |-> IF isFee THEN am.feeSwaps + 1 ELSE am.feeSwaps,
           feeVolumeUSD |-> IF isFee THEN am.feeVolumeUSD + v ELSE am.feeVolumeUSD,
           last24h |-> addIf(inCurrent(eventTime, H24), am.last24h, v),
           last7d |-> addIf(inCurrent(eventTime, D7), am.last7d, v),
           last30d |-> addIf(inCurrent(eventTime, D30), am.last30d, v)]
    IN
    /\ diags' =
         IF priceId = NULL
           THEN [diags EXCEPT !.unmappedIntentTokenIds =
                   @ \cup {IF tokenId = "" THEN "(empty)" ELSE tokenId}]
         ELSE IF priceId \notin DOMAIN prices
           THEN [diags EXCEPT !.priceIdMissing = @ \cup {priceId}]
         ELSE diags
    /\ metrics' =
         [allTime |-> addIf(TRUE, metrics.allTime, v),
          last30d |-> addIf(inCurrent(eventTime, D30), metrics.last30d, v),
          last7d |-> addIf(inCurrent(eventTime, D7), metrics.last7d, v),
          last24h |-> addIf(inCurrent(eventTime, H24), metrics.last24h, v),
          previous24h |-> addIf(inPrevious(eventTime, H48, H24), metrics.previous24h, v),
          previous7d |-> addIf(inPrevious(eventTime, D14, D7), metrics.previous7d, v),
          previous30d |-> addIf(inPrevious(eventTime, D60, D30), metrics.previous30d, v)]
    /\ tradingPairs' =
         IF isPair
           THEN MapSet(tradingPairs, pairKey(tokenInId, tokenOutId),
                  bumpPair(MapGetOr(tradingPairs, pairKey(tokenInId, tokenOutId), PairMetrics0)))
         ELSE tradingPairs
    /\ feeSwaps' =
         IF isFee
           THEN [allTime |-> addIf(TRUE, feeSwaps.allTime, v),
                 last24h |-> addIf(inCurrent(eventTime, H24), feeSwaps.last24h, v),
                 last7d |-> addIf(inCurrent(eventTime, D7), feeSwaps.last7d, v),
                 last30d |-> addIf(inCurrent(eventTime, D30), feeSwaps.last30d, v)]
         ELSE feeSwaps
    /\ feeSwapPairs' =
         IF isFee
           THEN MapSet(feeSwapPairs, pairKey(tokenInId, tokenOutId),
                  bumpPair(MapGetOr(feeSwapPairs, pairKey(tokenInId, tokenOutId), PairMetrics0)))
         ELSE feeSwapPairs
    /\ accounts' =
         IF accountId # ""
           THEN MapSet(accounts, accountId,
                  bumpAccount(MapGetOr(accounts, accountId, AccountMetrics0)))
         ELSE accounts
    /\ processed' = processed + 1

\* api/npro-summary.ts (getSwapMetrics), body of `for (const ev of batch)`.
foldNproSummary(e) ==
  LET amountStr == amountStrOf(e)
      tokenId == tokenIdOf(e)
      tokenInId == Coalesce(e.token_in_id, "")
      tokenOutId == Coalesce(e.token_out_id, "")
      eventTime == e.timestamp
      priceId == intentsToPriceId(tokenId)
  IN
  /\ processed' = processed + 1
  /\ UNCHANGED <<feeSwaps, feeSwapPairs, accounts>>
  /\ IF ~DecimalParses(amountStr) \/ DecimalValue[amountStr] <= 0
     THEN \* amount.lte(0), or the catch of the Decimal constructor
       /\ diags' = [diags EXCEPT !.badAmounts = @ + 1]
       /\ UNCHANGED <<metrics, tradingPairs>>
     ELSE IF priceId = NULL
     THEN
       /\ diags' = [diags EXCEPT !.unmappedIntentTokenIds = @ \cup {tokenId}]
       /\ UNCHANGED <<metrics, tradingPairs>>
     ELSE IF priceId \notin DOMAIN prices
     THEN
       /\ diags' = [diags EXCEPT !.priceIdMissing = @ \cup {priceId}]
       /\ UNCHANGED <<metrics, tradingPairs>>
     ELSE
       LET v == DecimalValue[amountStr] * prices[priceId] * VolScale
           bumpPair(pm) ==
             [swaps |-> pm.swaps + 1, volumeUSD |-> pm.volumeUSD + v,
              last24h |-> addIf(inCurrent(eventTime, H24), pm.last24h, v)]
       IN
       /\ diags' = diags
       /\ metrics' =
            [allTime |-> addIf(TRUE, metrics.allTime, v),
             last24h |-> addIf(inCurrent(eventTime, H24), metrics.last24h, v),
             previous24h |-> addIf(inPreviousElse(eventTime, H48, H24), metrics.previous24h, v),
             last7d |-> addIf(inCurrent(eventTime, D7), metrics.last7d, v),
             previous7d |-> addIf(inPreviousElse(eventTime, D14, D7), metrics.previous7d, v),
             last30d |-> addIf(inCurrent(eventTime, D30), metrics.last30d, v),
             previous30d |-> addIf(inPreviousElse(eventTime, D60, D30), metrics.previous30d, v)]
       /\ tradingPairs' =
            IF tokenInId # "" /\ tokenOutId # ""
              THEN MapSet(tradingPairs, pairKey(tokenInId, tokenOutId),
                  bumpPair(MapGetOr(tradingPairs, pairKey(tokenInId, tokenOutId), NproPairMetrics0)))
            ELSE tradingPairs

\* feeLeaders.ts (computeFeeLeaders), body of `for (const ev of batch)`.
foldFeeLeaders(e) ==
  LET tokenInId == Coalesce(e.token_in_id, "")
      tokenOutId == Coalesce(e.token_out_id, "")
      accountId == Coalesce(e.account_id, "")
      amountStr == amountStrOf(e)
      tokenId == tokenIdOf(e)
      priceId == intentsToPriceId(tokenId)
      eventTime == e.timestamp
      skipped ==
        \/ accountId = "" \/ tokenInId = "" \/ tokenOutId = ""
        \/ isDepositWithdrawPair(tokenInId, tokenOutId)
        \/ ~DecimalParses(amountStr)
        \/ priceId = NULL
        \/ priceId \notin DOMAIN prices
  IN
  /\ UNCHANGED <<metrics, feeSwaps, tradingPairs, feeSwapPairs, diags, processed>>
  /\ IF skipped THEN UNCHANGED accounts
     ELSE
       LET volumeUSD == DecimalValue[amountStr] * prices[priceId] * VolScale
           bump(a) ==
             LET feeUSD == volumeUSD * FEE_RATES[a.tier]
                 in30 == inCurrent(eventTime, D30)
                 in7 == inCurrent(eventTime, D7)
                 in24 == inCurrent(eventTime, H24)
                 add(c, x, d) == IF c THEN x + d ELSE x
             IN [accountId |-> a.accountId, tier |-> a.tier,
                 fees |-> [allTime |-> a.fees.allTime + feeUSD,
                           last30d |-> add(in30, a.fees.last30d, feeUSD),
                           last7d |-> add(in7, a.fees.last7d, feeUSD),
                           last24h |-> add(in24, a.fees.last24h, feeUSD)],
                 volumeUSD |-> [allTime |-> a.volumeUSD.allTime + volumeUSD,
                                last30d |-> add(in30, a.volumeUSD.last30d, volumeUSD),
                                last7d |-> add(in7, a.volumeUSD.last7d, volumeUSD),
                                last24h |-> add(in24, a.volumeUSD.last24h, volumeUSD)],
                 swaps |-> [allTime |-> a.swaps.allTime + 1,
                            last30d |-> add(in30, a.swaps.last30d, 1),
                            last7d |-> add(in7, a.swaps.last7d, 1),
                            last24h |-> add(in24, a.swaps.last24h, 1)]]
       IN accounts' = MapSet(accounts, accountId,
                  bump(MapGetOr(accounts, accountId, AccountFeeData0(accountId))))

\* The fold of the loop that is running.
foldEvent(e) ==
  /\ ev' = e
  /\ CASE variant = "swapMetrics" -> foldSwapMetrics(e)
       [] variant = "nproSummary" -> foldNproSummary(e)
       [] variant = "feeLeaders" -> foldFeeLeaders(e)

\* ------------------------------------------------------------- the inputs
Now0 == 1793491200              \* 2026-11-01T00:00:00Z, a value of Date.now()

PriceTable == ("near" :> 3) @@ ("usd-coin" :> 1) @@ ("the-open-network" :> 2)

Event(t, acct, aIn, aOut, tIn, tOut) ==
  [timestamp |-> t, account_id |-> acct, amount_in |-> aIn, amount_out |-> aOut,
   token_in_id |-> tIn, token_out_id |-> tOut]

NoEvent == Event(0, NULL, NULL, NULL, NULL, NULL)

\* A priced fee-generating swap by alice at instant t.
GoodAt(t) == Event(t, "alice.near", "100", "2", "intents:usdc", "intents:near")

Recent == Now0 - 3600

\* Instants on both sides of every window boundary.
BoundaryTimes ==
  {Now0} \cup UNION {{Now0 - w, Now0 - w - 1} : w \in {H24, H48, D7, D14, D30, D60}}

\* Amount strings of the valued leg that are unparseable, zero, negative, absent.
BadAmounts == {"abc", "", "0", "-5", NULL}

TokenPairs ==
  {<<"near-native", "intents:near">>, <<"intents:near", "near-native">>,
   <<"NEAR-NATIVE", "Intents:NEAR">>,
   <<"17208628f84f5d6ad33f0da3bbbeb27ffcb398eac501a31bd6ad2011e36133a1", "intents:usdc">>,
   <<"xyz:unknown", "intents:usdc">>, <<"intents:usdc", "xyz:unknown">>,
   <<"intents:kaito", "intents:usdc">>, <<"intents:usdc", "intents:kaito">>,
   <<"", "intents:near">>, <<"intents:near", "">>, <<NULL, NULL>>,
   <<"intents:near", "intents:usdc">>, <<" intents:usdc ", "gnear-229.meme-cooking.near">>}

Accounts == {"alice.near", "bob.near", "", NULL}

\* The events offered to the fold-only specification.
Events ==
  {GoodAt(t) : t \in BoundaryTimes \cup {Recent}}
  \cup {Event(Recent, "alice.near", a, a, "intents:usdc", "intents:near") : a \in BadAmounts}
  \cup {Event(Recent, "bob.near", "100", "2", p[1], p[2]) : p \in TokenPairs}
  \cup {Event(Recent, c, "2", "100", "intents:near", "intents:usdc") : c \in Accounts}
  \cup {Event(Now0 - H48, "bob.near", "-5", "-5", "near-native", "intents:near"),
        Event(Now0 - D30 - 1, "alice.near", "2", "2", "intents:near", "near-native"),
        Event(Now0 - D7, "", "0", "0", "xyz:unknown", "intents:kaito")}

\* The events of the streams of a paginated run.
RunEvents ==
  {GoodAt(Recent),
   Event(Now0 - H24 - 1, "bob.near", "abc", "abc", "near-native", "intents:near"),
   Event(Now0 - D7, "bob.near", "2", "2", "intents:near", "near-native")}

Streams == UNION {[1..n -> RunEvents] : n \in 0..MaxStream}

NoUserLists == [premium |-> {}, ambassador |-> {}]

UserListChoices == {NoUserLists, [premium |-> {"alice.near"}, ambassador |-> {"bob.near"}]}

\* An HTTP failure as axios reports it: response status (0: no response),
\* whether response.data.detail mentions ClickHouse, the axios error code and
\* the retry-after header in seconds (0: header absent).
HttpError(status, ch, code, ra) ==
  [status |-> status, detailClickHouse |-> ch, code |-> code, retryAfter |-> ra]

NoError == HttpError(0, FALSE, "", 0)

HttpErrors ==
  {HttpError(500, FALSE, "ERR_BAD_RESPONSE", 0),
   HttpError(503, FALSE, "ERR_BAD_RESPONSE", 0),
   HttpError(400, TRUE, "ERR_BAD_REQUEST", 0),
   HttpError(400, FALSE, "ERR_BAD_REQUEST", 0),
   HttpError(429, FALSE, "ERR_BAD_REQUEST", 1),
   HttpError(0, FALSE, "ECONNABORTED", 0),
   HttpError(0, FALSE, "ECONNRESET", 0)}

NoResult == [kind |-> "none"]

\* let priceCache = null
NoCache == [isSet |-> FALSE, prices |-> << >>, timestamp |-> 0]

\* let memoryCache = null
NoMemoryCache == [isSet |-> FALSE, data |-> NoResult, timestamp |-> 0]

\* CACHE_FILE does not exist.
NoFile == [exists |-> FALSE, data |-> NoResult]

\* A call of getFeeLeaders that has not been made.
NoCall == [pc |-> "idle", how |-> "none", result |-> NoResult, at |-> 0]

\* getFeeLeaders has not been called and has left no file.
NoLeaders ==
  /\ memoryCache = NoMemoryCache
  /\ cacheFile = NoFile
  /\ calls = [c \in 1..MaxCalls |-> NoCall]

\* The locals of a call of the aggregation function that has not started.
FreshLocals ==
  [now |-> 0, prices |-> << >>, map |-> << >>,
   metrics |-> metrics0, feeSwaps |-> feeSwaps0, tradingPairs |-> << >>,
   feeSwapPairs |-> << >>, accounts |-> << >>, diags |-> diags0,
   offset |-> 0, processed |-> 0, batchCount |-> 0, batch |-> << >>, idx |-> 0,
   pc |-> "start", attempt |-> 0, delays |-> << >>, requests |-> << >>,
   examined |-> << >>, ev |-> NoEvent, lastError |-> NoError, result |-> NoResult]

InitRun ==
  /\ clock = Now0
  /\ priceCache = NoCache
  /\ map = << >>
  /\ priceLog = << >>
  /\ other = FreshLocals
  /\ self = 1
  /\ NoLeaders
  /\ now = Now0
  /\ prices = PriceTable
  /\ metrics = metrics0
  /\ feeSwaps = feeSwaps0
  /\ tradingPairs = << >>
  /\ feeSwapPairs = << >>
  /\ accounts = << >>
  /\ diags = diags0
  /\ offset = 0
  /\ processed = 0
  /\ batchCount = 0
  /\ batch = << >>
  /\ idx = 0
  /\ attempt = 0
  /\ delays = << >>
  /\ requests = << >>
  /\ examined = << >>
  /\ ev = NoEvent
  /\ lastError = NoError
  /\ result = NoResult

\* A paginated run: configuration and event source are chosen once.
Init ==
  /\ InitRun
  /\ variant \in {"swapMetrics", "nproSummary", "feeLeaders"}
  /\ useIn = TRUE
  /\ limit \in {1, 2}
  /\ maxEvents \in IF variant = "feeLeaders" THEN {0} ELSE {0, 1, 2}
  /\ userLists \in IF variant = "feeLeaders" THEN UserListChoices ELSE {NoUserLists}
  /\ stream \in Streams
  /\ pc = "loop"

\* ------------------------------------------------------ event source, hogql
Min(a, b) == IF a < b THEN a ELSE b

\* fetchSwapBatch: ORDER BY timestamp ASC LIMIT lim OFFSET off over the source.
fetchSwapBatch(off, lim) == SubSeq(stream, off + 1, Min(off + lim, Len(stream)))

\* hogql, catch block: which failures are classified as transient.
isRetryable(error) ==
  \/ error.status = 500
  \/ error.detailClickHouse
  \/ error.code = "ECONNABORTED"

\* A retry test that is off by one.
shouldRetry_offByOne(att, error) == att <= Retries /\ isRetryable(error)

\* hogql: `attempt < retries && isRetryable`
shouldRetry(att, error) == att < Retries /\ isRetryable(error)

pow2(n) == IF n = 1 THEN 2 ELSE IF n = 2 THEN 4 ELSE 8

\* Math.pow(2, attempt) * 1000
backoffDelay(att) == pow2(att) * 1000

\* The processed-event ceiling test that guards the while and the for loop.
hasCeiling == variant # "feeLeaders"
ceilingReached == hasCeiling /\ maxEvents > 0 /\ processed >= maxEvents

\* ------------------------------------------------------ growth percentages
\* A growth figure of the report: null, or a number of hundredths of a
\* percent (the report keeps two decimals: toFixed(2)).
GrowthNull == [isNull |-> TRUE, value |-> 0]
GrowthValue(v) == [isNull |-> FALSE, value |-> v]

Abs(x) == IF x < 0 THEN 0 - x ELSE x

RECURSIVE Gcd(_, _)
Gcd(a, b) == IF b = 0 THEN a ELSE Gcd(b, a % b)

\* n / d rounded to the nearest integer (d # 0), as toFixed rounds.
RoundDiv(n, d) ==
  LET nn == IF d < 0 THEN 0 - n ELSE n
      dd == Abs(d)
  IN  (2 * nn + dd) \div (2 * dd)

\* ((current - previous) / previous) * 100 with two decimals, in hundredths
\* of a percent; the fraction is reduced first so that the products stay
\* within the integers of the model.
percentChange(current, previous) ==
  LET g == Gcd(Abs(current - previous), Abs(previous))
  IN  RoundDiv(((current - previous) \div g) * 10000, previous \div g)

\* swapMetrics.ts: `if (previous === 0) return current > 0 ? null : 0;`
calculateGrowth(current, previous) ==
  IF previous = 0
    THEN IF current > 0 THEN GrowthNull ELSE GrowthValue(0)
    ELSE GrowthValue(percentChange(current, previous))

\* npro-summary.ts: `if (previous === 0) return current > 0 ? 100 : 0;`
calculateChange(current, previous) ==
  IF previous = 0
    THEN IF current > 0 THEN GrowthValue(10000) ELSE GrowthValue(0)
    ELSE GrowthValue(percentChange(current, previous))

\* The growth function of the loop that runs.
growthOf(current, previous) ==
  IF variant = "nproSummary"
    THEN calculateChange(current, previous)
    ELSE calculateGrowth(current, previous)

\* swapGrowthPercent / volumeGrowthPercent of one window of the report.
windowGrowth(cur, prev) ==
  [swaps |-> growthOf(metrics[cur].swaps, metrics[prev].swaps),
   volumeUSD |-> growthOf(metrics[cur].volumeUSD, metrics[prev].volumeUSD)]

\* The growth figures of the report (computeFeeLeaders reports none).
Growth ==
  IF variant = "feeLeaders" THEN << >>
  ELSE [last24h |-> windowGrowth("last24h", "previous24h"),
        last7d |-> windowGrowth("last7d", "previous7d"),
        last30d |-> windowGrowth("last30d", "previous30d")]

\* ------------------------------------------------------------ ranked lists
TopN == 30                      \* swapMetrics.ts: .slice(0, 30)
TopNpro == 10                   \* npro-summary.ts: .slice(0, 10)
TopLeaders == 20                \* feeLeaders.ts: .slice(0, 20)

\* The number a list is sorted by, read from one accumulator of a Map.
metricOf(x, by) ==
  CASE by = "totalVolumeUSD" -> x.volumeUSD
    [] by = "totalSwaps" -> x.swaps
    [] by = "feeVolumeUSD" -> x.feeVolumeUSD
    [] by = "last24hVolumeUSD" -> x.last24h.volumeUSD
    [] by = "last7dVolumeUSD" -> x.last7d.volumeUSD
    [] by = "last30dVolumeUSD" -> x.last30d.volumeUSD
    [] by = "fees.allTime" -> x.fees.allTime
    [] by = "fees.last24h" -> x.fees.last24h
    [] by = "fees.last7d" -> x.fees.last7d
    [] by = "fees.last30d" -> x.fees.last30d

\* The .filter(...) that precedes the sort of a list (lists without a
\* filter keep every entry).
passesFilter(x, by, filtered) ==
  IF ~filtered THEN TRUE
  ELSE CASE by = "feeVolumeUSD" -> x.feeSwaps > 0
         [] by = "last24hVolumeUSD" -> x.last24h.swaps > 0
         [] by = "last7dVolumeUSD" -> x.last7d.swaps > 0
         [] by = "last30dVolumeUSD" -> x.last30d.swaps > 0
         [] OTHER -> metricOf(x, by) > 0

\* Array.from(map.entries()).map(...): one row per key, in insertion order.
rowsOf(m, by, filtered) ==
  [i \in DOMAIN m |->
     [key |-> m[i][1], metric |-> metricOf(m[i][2], by),
      kept |-> passesFilter(m[i][2], by, filtered)]]

isKept(row) == row.kept

\* A comparator that sorts in ascending order.
compareFn_ascending(a, b) == a.metric - b.metric

\* The comparator of every list: (a, b) => b.metric - a.metric
compareFn(a, b) == b.metric - a.metric

\* Array.prototype.sort with that comparator, one row at a time: the sort is
\* stable, so a row goes before the first row it must precede (a positive
\* comparison) and after every row that compares equal.
RECURSIVE insertDesc(_, _)
insertDesc(sorted, row) ==
  IF sorted = << >> THEN <<row>>
  ELSE IF compareFn(Head(sorted), row) > 0 THEN <<row>> \o sorted
  ELSE <<Head(sorted)>> \o insertDesc(Tail(sorted), row)

RECURSIVE sortDesc(_, _)
sortDesc(rows, n) ==
  IF n = 0 THEN << >> ELSE insertDesc(sortDesc(rows, n - 1), rows[n])

\* .slice(0, n)
slice(rows, n) == SubSeq(rows, 1, Min(n, Len(rows)))

\* map -> rows -> filter -> sort -> slice
rankedList(m, by, filtered, n) ==
  LET kept == SelectSeq(rowsOf(m, by, filtered), isKept)
  IN  slice(sortDesc(kept, Len(kept)), n)

\* The ranked lists each loop puts in its report: the Map a list is built
\* from, the metric it is sorted by, whether it is filtered, and its length.
RankOf(of, by, filtered, n) == [of |-> of, by |-> by, filtered |-> filtered, n |-> n]

RankSpecs ==
  CASE variant = "swapMetrics" ->
         [topPairsAllTime |-> RankOf("tradingPairs", "totalVolumeUSD", FALSE, TopN),
          topPairs24h |-> RankOf("tradingPairs", "last24hVolumeUSD", TRUE, TopN),
          topPairs7d |-> RankOf("tradingPairs", "last7dVolumeUSD", TRUE, TopN),
          topPairs30d |-> RankOf("tradingPairs", "last30dVolumeUSD", TRUE, TopN),
          topFeeSwapPairsAllTime |-> RankOf("feeSwapPairs", "totalVolumeUSD", FALSE, TopN),
          topFeeSwapPairs24h |-> RankOf("feeSwapPairs", "last24hVolumeUSD", TRUE, TopN),
          topFeeSwapPairs7d |-> RankOf("feeSwapPairs", "last7dVolumeUSD", TRUE, TopN),
          topFeeSwapPairs30d |-> RankOf("feeSwapPairs", "last30dVolumeUSD", TRUE, TopN),
          topSwappersByVolume |-> RankOf("accounts", "totalVolumeUSD", FALSE, TopN),
          topSwappersByCount |-> RankOf("accounts", "totalSwaps", FALSE, TopN),
          topSwappersByFeeVolume |-> RankOf("accounts", "feeVolumeUSD", TRUE, TopN),
          topSwappers24h |-> RankOf("accounts", "last24hVolumeUSD", TRUE, TopN),
          topSwappers7d |-> RankOf("accounts", "last7dVolumeUSD", TRUE, TopN),
          topSwappers30d |-> RankOf("accounts", "last30dVolumeUSD", TRUE, TopN)]
    [] variant = "nproSummary" ->
         [topPairs |-> RankOf("tradingPairs", "last24hVolumeUSD", FALSE, TopNpro)]
    [] variant = "feeLeaders" ->
         [allTime |-> RankOf("accounts", "fees.allTime", TRUE, TopLeaders),
          last24h |-> RankOf("accounts", "fees.last24h", TRUE, TopLeaders),
          last7d |-> RankOf("accounts", "fees.last7d", TRUE, TopLeaders),
          last30d |-> RankOf("accounts", "fees.last30d", TRUE, TopLeaders)]

mapNamed(of) ==
  CASE of = "tradingPairs" -> tradingPairs
    [] of = "feeSwapPairs" -> feeSwapPairs
    [] of = "accounts" -> accounts

Ranked ==
  [name \in DOMAIN RankSpecs |->
     rankedList(mapNamed(RankSpecs[name].of), RankSpecs[name].by,
                RankSpecs[name].filtered, RankSpecs[name].n)]

\* The report assembled from the accumulators after the loop.
Report ==
  [kind |-> "report", metrics |-> metrics, growth |-> Growth, ranked |-> Ranked,
   totalUniqueAccounts |-> Len(accounts), feeSwaps |-> feeSwaps,
   tradingPairs |-> tradingPairs, feeSwapPairs |-> feeSwapPairs,
   accounts |-> accounts, notes |-> diags, examined |-> examined]

\* Leaving the while loop: the report is built and returned.
finish ==
  /\ pc' = "done"
  /\ result' = Report

\* An offset that skips one event after every page.
nextOffset_skip(off, batchLen, lim) == off + batchLen + 1

\* How each loop advances its offset after a page.
nextOffset(off, batchLen, lim) ==
  IF variant = "nproSummary" THEN off + lim ELSE off + batchLen

\* A loop without the short-page break.
breaksOnShortPage_never(batchLen, lim) == FALSE

\* swapMetrics.ts only: `if (batch.length < limit) break;`
breaksOnShortPage(batchLen, lim) == variant = "swapMetrics" /\ batchLen < lim

\* ----------------------------------------------------------- the page loop
\* while (true): the ceiling test at the top of the loop breaks out.
CeilingBreak ==
  /\ pc = "loop"
  /\ ceilingReached
  /\ finish
  /\ UNCHANGED <<cfgVars, accVars, httpVars, ev, offset, batchCount, batch, idx,
                 requests, examined>>

\* await fetchSwapBatch(offset, limit): the first HTTP attempt is sent.
RequestPage ==
  /\ pc = "loop"
  /\ ~ceilingReached
  /\ pc' = "http"
  /\ attempt' = 1
  /\ delays' = << >>
  /\ requests' = Append(requests, <<offset, limit>>)
  /\ UNCHANGED <<cfgVars, accVars, ev, lastError, offset, batchCount, batch, idx,
                 examined, result>>

\* The attempt in flight succeeds: hogql returns the rows of the page (the
\* caught error and the backoff are locals of the call and are gone with it).
HttpOk ==
  /\ pc = "http"
  /\ lastError' = NoError
  /\ delays' = << >>
  /\ LET rows == fetchSwapBatch(offset, limit)
     IN  /\ batch' = rows
         /\ attempt' = 0
         /\ IF Len(rows) = 0
              THEN finish /\ UNCHANGED <<idx, batchCount>>
              ELSE /\ pc' = "fold"
                   /\ idx' = 1
                   /\ batchCount' = batchCount + 1
                   /\ UNCHANGED result
  /\ UNCHANGED <<cfgVars, accVars, ev, offset, requests, examined>>

\* The attempt in flight fails with a transient error and attempts remain:
\* hogql sleeps the backoff delay and sends the next attempt.
HttpRetry(error) ==
  /\ pc = "http"
  /\ shouldRetry(attempt, error)
  /\ lastError' = error
  /\ delays' = Append(delays, backoffDelay(attempt))
  /\ attempt' = attempt + 1
  /\ UNCHANGED <<cfgVars, accVars, loopVars, ev>>

\* A failure that is swallowed: the loop is left and a report is returned
\* from what was folded so far.
HttpThrow_swallow(error) ==
  /\ pc = "http"
  /\ ~shouldRetry(attempt, error)
  /\ lastError' = error
  /\ finish
  /\ UNCHANGED <<cfgVars, accVars, ev, attempt, delays, offset, batchCount, batch, idx,
                 requests, examined>>

\* The attempt in flight fails and hogql rethrows: the error leaves
\* fetchSwapBatch and the aggregation function.
HttpThrow(error) ==
  /\ pc = "http"
  /\ ~shouldRetry(attempt, error)
  /\ lastError' = error
  /\ pc' = "failed"
  /\ result' = [kind |-> "error", error |-> error]
  /\ UNCHANGED <<cfgVars, accVars, ev, attempt, delays, offset, batchCount, batch, idx,
                 requests, examined>>

\* for (const ev of batch): one event enters the per-event fold.
FoldStep ==
  /\ pc = "fold"
  /\ idx <= Len(batch)
  /\ ~ceilingReached
  /\ foldEvent(batch[idx])
  /\ examined' = Append(examined, offset + idx)
  /\ idx' = idx + 1
  /\ UNCHANGED <<cfgVars, httpVars, offset, batchCount, batch, pc, requests, result>>

\* A for loop that may be left before the page is exhausted.
EndOfPage_early ==
  /\ pc = "fold"
  /\ offset' = nextOffset(offset, Len(batch), limit)
  /\ IF breaksOnShortPage(Len(batch), limit)
       THEN finish
       ELSE pc' = "loop" /\ UNCHANGED result
  /\ UNCHANGED <<cfgVars, accVars, httpVars, ev, batchCount, batch, idx, requests, examined>>

\* The for loop ends (page exhausted, or the ceiling test breaks out of it):
\* the offset advances and the while loop continues or breaks.
EndOfPage ==
  /\ pc = "fold"
  /\ idx > Len(batch) \/ ceilingReached
  /\ offset' = nextOffset(offset, Len(batch), limit)
  /\ IF breaksOnShortPage(Len(batch), limit)
       THEN finish
       ELSE pc' = "loop" /\ UNCHANGED result
  /\ UNCHANGED <<cfgVars, accVars, httpVars, ev, batchCount, batch, idx, requests, examined>>

Next ==
  \/ CeilingBreak
  \/ RequestPage
  \/ HttpOk
  \/ \E error \in HttpErrors : HttpRetry(error)
  \/ \E error \in HttpErrors : HttpThrow(error)
  \/ FoldStep
  \/ EndOfPage

Spec == Init /\ [][Next]_vars

\* ------------------------------------------------ fold-only specification
\* The per-event fold applied to up to MaxFold events drawn from Events, for
\* each loop and each valued leg.
InitFold ==
  /\ InitRun
  /\ variant \in {"swapMetrics", "nproSummary", "feeLeaders"}
  /\ useIn \in BOOLEAN
  /\ limit = 1
  /\ maxEvents = 0
  /\ userLists = [premium |-> {"alice.near"}, ambassador |-> {}]
  /\ stream = << >>
  /\ pc = "foldOnly"

FoldAny(e) ==
  /\ pc = "foldOnly"
  /\ idx < MaxFold
  /\ foldEvent(e)
  /\ examined' = Append(examined, idx + 1)
  /\ idx' = idx + 1
  /\ UNCHANGED <<cfgVars, httpVars, offset, batchCount, batch, pc, requests, result>>

NextFold == \E e \in Events : FoldAny(e)

SpecFold == InitFold /\ [][NextFold]_vars

\* ------------------------------------------------- vocabulary of the claims
\* The step put one event through the per-event fold; ev' is that event.
FoldTaken == Len(examined') = Len(examined) + 1

isGetSwapMetrics == variant \in {"swapMetrics", "nproSummary"}

tokenInOf(e) == Coalesce(e.token_in_id, "")
tokenOutOf(e) == Coalesce(e.token_out_id, "")

\* The valued-leg amount is unparseable, zero or negative.
BadAmount(e) ==
  ~DecimalParses(amountStrOf(e)) \/ DecimalValue[amountStrOf(e)] <= 0

Unmapped(e) == intentsToPriceId(tokenIdOf(e)) = NULL
PriceMissing(e) == ~Unmapped(e) /\ intentsToPriceId(tokenIdOf(e)) \notin DOMAIN prices

\* No all-time, window, pair, fee or account accumulator moves in the step.
AccumulatorsUnchanged ==
  UNCHANGED <<metrics, feeSwaps, tradingPairs, feeSwapPairs, accounts>>

\* swaps of a Map entry, 0 when the key is absent
SwapsAt(m, k) == IF MapHas(m, k) THEN MapGet(m, k).swaps ELSE 0

\* C1: in the per-event fold of getSwapMetrics, an event whose valued-leg
\* amount is unparseable, zero or negative increments badAmounts by exactly
\* one and changes no accumulator.
C1_BadAmountSkipped ==
  [][(FoldTaken /\ isGetSwapMetrics /\ BadAmount(ev'))
       => (diags'.badAmounts = diags.badAmounts + 1 /\ AccumulatorsUnchanged)]_vars

\* C2: an event skipped because its valued token is unmapped or its price id
\* has no price is recorded in exactly one diagnostic set (unmappedIntentTokenIds
\* resp. priceIdMissing) and changes no accumulator.
C2_UnpricedSkipped ==
  [][(FoldTaken /\ isGetSwapMetrics /\ ~BadAmount(ev') /\ (Unmapped(ev') \/ PriceMissing(ev')))
       => /\ AccumulatorsUnchanged
          /\ diags'.badAmounts = diags.badAmounts
          /\ Unmapped(ev') =>
               /\ diags'.unmappedIntentTokenIds # {}
               /\ diags'.unmappedIntentTokenIds \ diags.unmappedIntentTokenIds
                    \subseteq {tokenIdOf(ev'), "(empty)"}
               /\ diags'.priceIdMissing = diags.priceIdMissing
          /\ PriceMissing(ev') =>
               /\ intentsToPriceId(tokenIdOf(ev')) \in diags'.priceIdMissing
               /\ diags'.unmappedIntentTokenIds = diags.unmappedIntentTokenIds]_vars

\* The event of the step was counted: the all-time swap count moved.
Counted == metrics'.allTime.swaps = metrics.allTime.swaps + 1

\* What the step added to one window accumulator.
dSwaps(name) == metrics'[name].swaps - metrics[name].swaps
dVolume(name) == metrics'[name].volumeUSD - metrics[name].volumeUSD

\* The window rule for one size w (2w = w2) and its two accumulators.
WindowRule(t, w, w2, cur, prev) ==
  LET all == dVolume("allTime")
  IN  /\ dSwaps(cur) + dSwaps(prev) <= 1
      /\ t >= now - w => dSwaps(cur) = 1 /\ dSwaps(prev) = 0
                         /\ dVolume(cur) = all /\ dVolume(prev) = 0
      /\ (t >= now - w2 /\ t < now - w) => dSwaps(cur) = 0 /\ dSwaps(prev) = 1
                         /\ dVolume(cur) = 0 /\ dVolume(prev) = all
      /\ t < now - w2 => dSwaps(cur) = 0 /\ dSwaps(prev) = 0
                         /\ dVolume(cur) = 0 /\ dVolume(prev) = 0

\* C3: for every event timestamp and every window size w in {24h, 7d, 30d} the
\* fold adds a counted event to at most one of current-w and previous-w: at or
\* after now-w to current-w, in [now-2w, now-w) to previous-w, older to neither;
\* an event that is not counted is added to none.
C3_WindowDisjoint ==
  [][(FoldTaken /\ isGetSwapMetrics)
       => IF Counted
            THEN /\ WindowRule(ev'.timestamp, H24, H48, "last24h", "previous24h")
                 /\ WindowRule(ev'.timestamp, D7, D14, "last7d", "previous7d")
                 /\ WindowRule(ev'.timestamp, D30, D60, "last30d", "previous30d")
            ELSE metrics' = metrics]_vars

\* C3 witness: an event one second older than now-24h was counted in
\* previous-24h and current-7d, not in current-24h.
C3_Witness ==
  /\ isGetSwapMetrics
  /\ Len(examined) = 1
  /\ ev.timestamp = now - H24 - 1
  /\ metrics.previous24h.swaps = 1
  /\ metrics.last24h.swaps = 0
  /\ metrics.last7d.swaps = 1
  /\ metrics.previous7d.swaps = 0

\* The error stages of the running loop skip the event.
Skipped(e) ==
  CASE variant = "swapMetrics" -> ~DecimalParses(amountStrOf(e))
    [] variant = "nproSummary" -> BadAmount(e) \/ Unmapped(e) \/ PriceMissing(e)
    [] OTHER -> TRUE

\* fee-eligible sub-totals of one account of swapMetrics.ts, 0 when absent
FeeOf(m, k) ==
  IF MapHas(m, k) THEN <<MapGet(m, k).feeSwaps, MapGet(m, k).feeVolumeUSD>> ELSE <<0, 0>>

\* C4: an event whose (tokenInId, tokenOutId) satisfies isDepositWithdrawPair
\* and that the error stages do not skip is counted in the tradingPairs entry of
\* its pair; no such event, skipped or not, moves the feeSwaps totals, the
\* feeSwapPairs map, any account's feeSwaps / feeVolumeUSD, or any account's
\* fee total of computeFeeLeaders.
C4_FeeExclusion ==
  [][(FoldTaken /\ isDepositWithdrawPair(tokenInOf(ev'), tokenOutOf(ev')))
       => LET key == pairKey(tokenInOf(ev'), tokenOutOf(ev'))
          IN  /\ (isGetSwapMetrics /\ ~Skipped(ev'))
                   => SwapsAt(tradingPairs', key) = SwapsAt(tradingPairs, key) + 1
              /\ feeSwaps' = feeSwaps
              /\ feeSwapPairs' = feeSwapPairs
              /\ ~MapHas(feeSwapPairs', key)
              /\ variant = "swapMetrics" =>
                   \A k \in MapKeys(accounts') : FeeOf(accounts', k) = FeeOf(accounts, k)
              /\ variant = "feeLeaders" => accounts' = accounts]_vars

\* C4 witness: a withdrawal by bob was counted in its trading pair and in the
\* account, with no fee-eligible swap anywhere.
C4_Witness ==
  /\ variant = "swapMetrics"
  /\ Len(examined) = 1
  /\ isDepositWithdrawPair(tokenInOf(ev), tokenOutOf(ev))
  /\ SwapsAt(tradingPairs, pairKey(tokenInOf(ev), tokenOutOf(ev))) = 1
  /\ MapHas(accounts, "bob.near")
  /\ FeeOf(accounts, "bob.near") = <<0, 0>>
  /\ feeSwaps.allTime.swaps = 0
  /\ feeSwapPairs = << >>

\* ---------------------------------------------------------- run-level claims
Terminated == pc \in {"done", "failed"}

AllPositions == [i \in 1..Len(stream) |-> i]

\* C5: a run either completes with a report built from every page of the
\* stream or fails entirely: when a page fetch fails after its retries, at
\* whatever page index, the run ends with the error and no report, also when
\* earlier pages were already folded; a report exists only after the loop ended
\* normally, and without a ceiling it covers every event of the stream.
C5_AllOrNothing ==
  /\ pc = "failed" => result.kind = "error"
  /\ ~Terminated => result = NoResult
  /\ result.kind = "report" =>
       /\ pc = "done"
       /\ result.examined = examined
       /\ maxEvents = 0 => examined = AllPositions

\* C5 witness: the fetch of a later page failed after events of an earlier
\* page had been folded, and the run returned the error.
C5_Witness ==
  /\ pc = "failed"
  /\ Len(requests) >= 2
  /\ Len(examined) >= 1
  /\ metrics.allTime.swaps >= 1
  /\ result.kind = "error"

\* Number of events the source returned for the k-th page request.
pageLen(k) == Len(fetchSwapBatch(requests[k][1], requests[k][2]))

\* Every request but the first starts where the previous page ended.
Contiguous ==
  \A k \in 1..(Len(requests) - 1) : requests[k + 1][1] = requests[k][1] + pageLen(k)

\* Every request that follows a full page starts where that page ended, and no
\* request starts before the end of the previous page.
ContiguousAfterFull ==
  \A k \in 1..(Len(requests) - 1) :
    /\ requests[k + 1][1] >= requests[k][1] + pageLen(k)
    /\ pageLen(k) = requests[k][2] => requests[k + 1][1] = requests[k][1] + pageLen(k)

\* C6 as stated: with MAX_EVENTS = 0 and a static source the offsets of
\* successive page requests are contiguous (each starts where the previous page
\* ended) and a completed run examined every event exactly once.
C6_Original ==
  (isGetSwapMetrics /\ maxEvents = 0) =>
    /\ Contiguous
    /\ pc = "done" => examined = AllPositions

\* C6 amended: with MAX_EVENTS = 0 and a static source a request that follows a
\* full page starts where that page ended and no request starts before the end
\* of the previous page (after a short page the npro-summary.ts copy advances by
\* the page size, beyond the end of the stream); the events are examined in
\* stream order without gap or repetition, and a completed run examined every
\* event exactly once.
C6_ExactlyOnce ==
  (isGetSwapMetrics /\ maxEvents = 0) =>
    /\ ContiguousAfterFull
    /\ examined = [i \in 1..Len(examined) |-> i]
    /\ pc = "done" => examined = AllPositions

\* C6 witness: a completed run over three events in pages of two examined the
\* three events once each, the second page being short.
C6_Witness ==
  /\ isGetSwapMetrics /\ maxEvents = 0 /\ limit = 2
  /\ pc = "done"
  /\ Len(stream) = 3
  /\ examined = <<1, 2, 3>>
  /\ Len(requests) >= 2

\* The run keeps taking steps while one is enabled: every await of the loop
\* settles (the HTTP request has a 60 s timeout) and the synchronous code runs
\* to its next await.
\* Termination does not depend on what the events hold beyond whether they
\* count against the ceiling (swapMetrics.ts does not count an event whose
\* amount does not parse), so the streams mix one counted and one uncounted event.
TermEvents ==
  {GoodAt(Recent),
   Event(Now0 - H24 - 1, "bob.near", "abc", "abc", "near-native", "intents:near")}

InitTerm ==
  /\ InitRun
  /\ variant \in {"swapMetrics", "nproSummary", "feeLeaders"}
  /\ useIn = TRUE
  /\ limit \in {1, 2}
  /\ maxEvents \in IF variant = "feeLeaders" THEN {0} ELSE {0, 1, 2}
  /\ userLists = NoUserLists
  /\ stream \in UNION {[1..n -> TermEvents] : n \in 0..MaxStream}
  /\ pc = "loop"

FairSpec == InitTerm /\ [][Next]_vars /\ WF_vars(Next)

\* A step that issues a page request.
IssuesRequest == Len(requests') = Len(requests) + 1

\* No page is requested after a page that returned fewer events than the limit.
NoRequestAfterShortPage ==
  \A k \in 1..(Len(requests) - 1) : pageLen(k) = requests[k][2]

\* Pages are requested until one comes back empty; swapMetrics.ts also stops
\* at a short page; the other loops request exactly one more page after a
\* short page, and that page is empty.
StopsAtEndOfStream ==
  \A k \in 1..(Len(requests) - 1) :
    /\ pageLen(k) >= 1
    /\ variant = "swapMetrics" => pageLen(k) = requests[k][2]
    /\ pageLen(k) < requests[k][2] => (k + 1 = Len(requests) /\ pageLen(k + 1) = 0)

\* C7 as stated: for every finite stream and page size the page loop
\* terminates, and no page is requested after a page shorter than the page size
\* or once the processed-event ceiling is reached.
C7_Original ==
  /\ <>Terminated
  /\ []NoRequestAfterShortPage
  /\ [][IssuesRequest => ~ceilingReached]_vars

\* C7 amended: for every finite stream and page size the page loop terminates;
\* no page is requested once the processed-event ceiling is reached or after an
\* empty page; swapMetrics.ts requests no page after a short page, while the
\* loops of npro-summary.ts and feeLeaders.ts request exactly one more page
\* after a non-empty short page, which comes back empty and ends the loop.
C7_Termination ==
  /\ <>Terminated
  /\ []StopsAtEndOfStream
  /\ [][IssuesRequest => ~ceilingReached]_vars

\* C7 witness: swapMetrics.ts finished right after a short second page, with
\* two requests only.
C7_Witness ==
  /\ variant = "swapMetrics" /\ maxEvents = 0 /\ limit = 2
  /\ Len(stream) = 3
  /\ pc = "done"
  /\ Len(requests) = 2
  /\ pageLen(2) = 1

\* C8: one page fetch makes at most 3 HTTP attempts; a further attempt follows
\* a failure only when fewer than 3 attempts were made and the failure is
\* retryable; otherwise the error propagates to the engine, which ends with that
\* error, and nothing more is attempted.
C8_AtMostThreeAttempts ==
  /\ [](attempt <= 3 /\ Len(delays) <= 2)
  /\ [][(pc = "http" /\ attempt' = attempt + 1)
          => (attempt < 3 /\ isRetryable(lastError'))]_vars
  /\ [](pc = "failed" =>
          /\ result = [kind |-> "error", error |-> lastError]
          /\ attempt = 3 \/ ~isRetryable(lastError))
  /\ [][pc # "failed"]_vars

\* C8 witness: the third attempt of a page failed with a retryable error and
\* the run ended with it.
C8_Witness ==
  /\ pc = "failed"
  /\ attempt = 3
  /\ isRetryable(lastError)
  /\ delays = <<2000, 4000>>

\* The failures the adapter contract classifies as transient: any HTTP 5xx, a
\* ClickHouse error signature, a request timeout.
Transient(error) ==
  \/ error.status \in 500..599
  \/ error.detailClickHouse
  \/ error.code = "ECONNABORTED"

\* C9: the page fetch retries, with exponentially growing delay, on every
\* classified-transient failure (HTTP 5xx, ClickHouse signature, timeout) as
\* long as fewer than 3 attempts have been made: it never gives up on a
\* transient failure before the third attempt.
C9_TransientRetried ==
  /\ (pc = "failed" /\ attempt < 3) => ~Transient(lastError)
  /\ \A i \in DOMAIN delays : delays[i] = pow2(i) * 1000

\* C10: on HTTP 429 the adapter waits the server-provided retry-after delay and
\* retries the same page instead of failing the run: a 429 received while
\* attempts remain never ends the run.
C10_RateLimitHonoured ==
  ~(pc = "failed" /\ lastError.status = 429 /\ attempt < 3)

\* ------------------------------------------------------------ growth claims
GrowthWindows == {<<"last24h", "previous24h">>, <<"last7d", "previous7d">>,
                  <<"last30d", "previous30d">>}
GrowthFields == {"swaps", "volumeUSD"}

Reported == result.kind = "report" /\ isGetSwapMetrics

\* C11: in a returned report of either getSwapMetrics copy, for each window
\* (24h, 7d, 30d) and for both swap count and volume, a previous-period value
\* of zero with a nonzero current-period value is reported as a null growth
\* percentage, never as a finite number.
C11_GrowthNullFromZero ==
  Reported =>
    \A w \in GrowthWindows, f \in GrowthFields :
      (result.metrics[w[2]][f] = 0 /\ result.metrics[w[1]][f] # 0)
        => result.growth[w[1]][f].isNull

\* C12: in a returned report of either getSwapMetrics copy, a window whose
\* previous-period and current-period values are both zero has a null growth
\* percentage.
C12_GrowthNullBothZero ==
  Reported =>
    \A w \in GrowthWindows, f \in GrowthFields :
      (result.metrics[w[2]][f] = 0 /\ result.metrics[w[1]][f] = 0)
        => result.growth[w[1]][f].isNull

\* ------------------------------------------ folding in every order (C13)
\* Events that clear every recoverable-error stage on either valued leg:
\* positive amounts, mapped and priced tokens; different volumes, windows,
\* accounts and pairs (the third one is a deposit).
OrderEvents ==
  {GoodAt(Recent),
   Event(Now0 - D7 - 1, "bob.near", "2", "100", "intents:near", "intents:usdc"),
   Event(tonFixDate - 1, "alice.near", "100", "100", "near-native", "intents:near")}

\* The events are fixed first; the fold then takes them in any order.
InitOrder ==
  /\ InitRun
  /\ variant \in {"swapMetrics", "nproSummary"}
  /\ useIn \in BOOLEAN
  /\ limit = 1
  /\ maxEvents = 0
  /\ userLists = NoUserLists
  /\ stream \in UNION {[1..n -> OrderEvents] : n \in 0..MaxOrder}
  /\ pc = "anyOrder"

\* The per-event fold applied to the event at position i, not yet folded.
FoldInOrder(i) ==
  /\ pc = "anyOrder"
  /\ \A k \in DOMAIN examined : examined[k] # i
  /\ foldEvent(stream[i])
  /\ examined' = Append(examined, i)
  /\ idx' = idx + 1
  /\ UNCHANGED <<cfgVars, httpVars, offset, batchCount, batch, pc, requests, result>>

NextOrder == \E i \in DOMAIN stream : FoldInOrder(i)

SpecOrder == InitOrder /\ [][NextOrder]_vars

\* The USD value of the valued leg of an event that clears every stage.
contributionOf(e) ==
  volumeOf(DecimalValue[amountStrOf(e)], intentsToPriceId(tokenIdOf(e)), e.timestamp)

RECURSIVE sumContributions(_, _)
sumContributions(s, n) ==
  IF n = 0 THEN 0 ELSE sumContributions(s, n - 1) + contributionOf(s[n])

\* The all-time total of a collection of events, taken in the order given.
allTimeOf(s) == [swaps |-> Len(s), volumeUSD |-> sumContributions(s, Len(s))]

AllFolded == pc = "anyOrder" /\ Len(examined) = Len(stream)

NotDecreased(a, b) == a.swaps <= b.swaps /\ a.volumeUSD <= b.volumeUSD

WindowNames == {"last24h", "last7d", "last30d"}

\* A pair accumulator and its nested window accumulators do not decrease.
PairNotDecreased(a, b) ==
  /\ NotDecreased(a, b)
  /\ \A w \in WindowNames \cap DOMAIN a : NotDecreased(a[w], b[w])

\* An account accumulator of getSwapMetrics does not decrease.
AccountNotDecreased(a, b) ==
  /\ PairNotDecreased(a, b)
  /\ a.feeSwaps <= b.feeSwaps
  /\ a.feeVolumeUSD <= b.feeVolumeUSD

\* An account entry of computeFeeLeaders does not decrease in any period.
FeeDataNotDecreased(a, b) ==
  \A p \in DOMAIN Periods0 :
    /\ a.swaps[p] <= b.swaps[p]
    /\ a.volumeUSD[p] <= b.volumeUSD[p]
    /\ a.fees[p] <= b.fees[p]

\* C14: from one folded event to the next, the swap count and the volumeUSD
\* of every accumulator (all-time, each window, each pair, each account, the
\* fee totals) never decrease.
C14_Monotone ==
  [][/\ \A n \in DOMAIN metrics : NotDecreased(metrics[n], metrics'[n])
     /\ \A n \in DOMAIN feeSwaps : NotDecreased(feeSwaps[n], feeSwaps'[n])
     /\ \A k \in MapKeys(tradingPairs) :
          PairNotDecreased(MapGet(tradingPairs, k), MapGet(tradingPairs', k))
     /\ \A k \in MapKeys(feeSwapPairs) :
          PairNotDecreased(MapGet(feeSwapPairs, k), MapGet(feeSwapPairs', k))
     /\ \A k \in MapKeys(accounts) :
          IF variant = "feeLeaders"
            THEN FeeDataNotDecreased(MapGet(accounts, k), MapGet(accounts', k))
            ELSE AccountNotDecreased(MapGet(accounts, k), MapGet(accounts', k))]_vars

\* ---------------------------------------------------------- price resolver
PRICE_CACHE_TTL == 5 * 60       \* 5 minutes
FallbackRetries == 3            \* fetchFromCoinGecko(coinGeckoIds, retries = 3)

\* Internal price id -> CoinGecko id, in the order of Object.entries.
coinGeckoFallbackMap ==
  <<(<<"kaito", "kaito">>), (<<"arbitrum", "arbitrum">>),
    (<<"matic-network", "polygon-ecosystem-token">>), (<<"kat", "nearkat">>),
    (<<"npro", "npro">>), (<<"public-ai", "publicai">>), (<<"rhea", "rhea-2">>),
    (<<"itlx", "intellex">>)>>

FallbackIds == {coinGeckoFallbackMap[i][1] : i \in DOMAIN coinGeckoFallbackMap}

\* A row of the primary source's answer.
Row(id, usdPrice) == [id |-> id, usdPrice |-> usdPrice]

\* for (const row of data): rows without id or price and rows whose price
\* does not parse are ignored; a later row replaces an earlier one.
RECURSIVE buildMap(_, _)
buildMap(rows, n) ==
  IF n = 0 THEN << >>
  ELSE LET m == buildMap(rows, n - 1)
           row == rows[n]
       IN  IF row.id = NULL \/ row.id = "" \/ row.usdPrice = NULL THEN m
           ELSE IF ~DecimalParses(row.usdPrice) THEN m
           ELSE (row.id :> DecimalValue[row.usdPrice]) @@ m

\* The entries of the fallback map whose internal id has no primary price.
missingEntries(m) ==
  SelectSeq(coinGeckoFallbackMap, LAMBDA en : en[1] \notin DOMAIN m)

\* coinGeckoIdsToFetch
coinGeckoIdsToFetch(m) ==
  [i \in DOMAIN missingEntries(m) |-> missingEntries(m)[i][2]]

\* fetchFromCoinGecko, success: the ids of the answer with a truthy usd price.
coinGeckoResult(data) ==
  [cgId \in {c \in DOMAIN data : data[c] # 0} |-> data[cgId]]

\* coinGeckoFallbackMap[internalId]
coinGeckoIdOf(internalId) ==
  coinGeckoFallbackMap[CHOOSE i \in DOMAIN coinGeckoFallbackMap :
                         coinGeckoFallbackMap[i][1] = internalId][2]

\* A merge that lets the fallback price replace the primary one.
mergeFallback_overwrite(m, coinGeckoPrices) ==
  LET found == {id \in FallbackIds : coinGeckoIdOf(id) \in DOMAIN coinGeckoPrices}
  IN  [id \in DOMAIN m \cup found |->
         IF id \in found THEN coinGeckoPrices[coinGeckoIdOf(id)] ELSE m[id]]

\* Map CoinGecko prices back to internal ids: only ids still without a price.
mergeFallback(m, coinGeckoPrices) ==
  LET found == {id \in FallbackIds :
                  id \notin DOMAIN m /\ coinGeckoIdOf(id) \in DOMAIN coinGeckoPrices}
  IN  [id \in DOMAIN m \cup found |->
         IF id \in DOMAIN m THEN m[id] ELSE coinGeckoPrices[coinGeckoIdOf(id)]]

\* What the sources can answer in the model.
AllFallbackRows ==
  [i \in DOMAIN coinGeckoFallbackMap |-> Row(coinGeckoFallbackMap[i][1], "2")]

PrimaryAnswers ==
  {\* every id priced: nothing is missing
   <<Row("near", "2"), Row("usd-coin", "100")>> \o AllFallbackRows,
   \* kaito and npro are missing; arbitrum has a primary price of 0
   <<Row("near", "2"), Row("usd-coin", "100"), Row("arbitrum", "0"),
     Row("matic-network", "2"), Row("kat", "2"), Row("public-ai", "2"),
     Row("rhea", "2"), Row("itlx", "2")>>,
   \* unusable rows: no id, no price, a price that does not parse
   <<Row("near", "100"), Row(NULL, "2"), Row("kaito", NULL), Row("npro", "abc"),
     Row("near", "2")>>}

CoinGeckoAnswers ==
  {<< >>,
   ("kaito" :> 100) @@ ("npro" :> 2),
   ("kaito" :> 0),
   ("kaito" :> 2) @@ ("arbitrum" :> 100) @@ ("near" :> 100)}

\* A cache that is still served when it is exactly PRICE_CACHE_TTL old.
cacheIsFresh_inclusive ==
  priceCache.isSet /\ (clock - priceCache.timestamp) <= PRICE_CACHE_TTL

\* The cache test at the top of fetchPricesOnce.
cacheIsFresh ==
  priceCache.isSet /\ (clock - priceCache.timestamp) < PRICE_CACHE_TTL

\* fetchFromCoinGecko: `attempt < retries && (isThrottled || status >= 500 ||
\* error.code === 'ECONNABORTED')`
fallbackRetryable(att, error) ==
  att < FallbackRetries
    /\ (error.status = 429 \/ error.status >= 500 \/ error.code = "ECONNABORTED")

\* isThrottled ? 2^attempt * 5000 : 2^attempt * 1000
fallbackDelay(att, error) ==
  IF error.status = 429 THEN pow2(att) * 5000 ELSE pow2(att) * 1000

PriceRequest(source, ids) == [source |-> source, ids |-> ids, run |-> self]

\* ------------------------------------------- the run around the page loop
staticVars == <<variant, useIn, limit, maxEvents, userLists, stream, leaderVars>>
foldVars == <<metrics, feeSwaps, tradingPairs, feeSwapPairs, accounts, diags, processed,
              offset, batchCount, batch, idx, requests, examined, ev>>

\* The locals of the executing call, as one record.
Locals ==
  [now |-> now, prices |-> prices, map |-> map,
   metrics |-> metrics, feeSwaps |-> feeSwaps, tradingPairs |-> tradingPairs,
   feeSwapPairs |-> feeSwapPairs, accounts |-> accounts, diags |-> diags,
   offset |-> offset, processed |-> processed, batchCount |-> batchCount,
   batch |-> batch, idx |-> idx, pc |-> pc, attempt |-> attempt, delays |-> delays,
   requests |-> requests, examined |-> examined, ev |-> ev, lastError |-> lastError,
   result |-> result]

LocalsAre(l) ==
  /\ now = l.now /\ prices = l.prices /\ map = l.map
  /\ metrics = l.metrics /\ feeSwaps = l.feeSwaps /\ tradingPairs = l.tradingPairs
  /\ feeSwapPairs = l.feeSwapPairs /\ accounts = l.accounts /\ diags = l.diags
  /\ offset = l.offset /\ processed = l.processed /\ batchCount = l.batchCount
  /\ batch = l.batch /\ idx = l.idx /\ pc = l.pc /\ attempt = l.attempt
  /\ delays = l.delays /\ requests = l.requests /\ examined = l.examined
  /\ ev = l.ev /\ lastError = l.lastError /\ result = l.result

LocalsBecome(l) ==
  /\ now' = l.now /\ prices' = l.prices /\ map' = l.map
  /\ metrics' = l.metrics /\ feeSwaps' = l.feeSwaps /\ tradingPairs' = l.tradingPairs
  /\ feeSwapPairs' = l.feeSwapPairs /\ accounts' = l.accounts /\ diags' = l.diags
  /\ offset' = l.offset /\ processed' = l.processed /\ batchCount' = l.batchCount
  /\ batch' = l.batch /\ idx' = l.idx /\ pc' = l.pc /\ attempt' = l.attempt
  /\ delays' = l.delays /\ requests' = l.requests /\ examined' = l.examined
  /\ ev' = l.ev /\ lastError' = l.lastError /\ result' = l.result

\* fetchPricesOnce returns `table` to getSwapMetrics, which then reads the
\* clock (const now = Date.now()) and enters the page loop.
pricesReturned(table) ==
  /\ prices' = table
  /\ now' = clock
  /\ pc' = "loop"

\* priceCache = { prices: map, timestamp: Date.now() }; return map
cacheAndReturn(table) ==
  /\ priceCache' = [isSet |-> TRUE, prices |-> table, timestamp |-> clock]
  /\ map' = table
  /\ pricesReturned(table)

\* const prices = await fetchPricesOnce(): the cache test; a fresh cache is
\* returned, otherwise the primary source is queried.
PriceCall ==
  /\ pc = "start"
  /\ IF cacheIsFresh
       THEN /\ pricesReturned(priceCache.prices)
            /\ UNCHANGED <<priceLog>>
       ELSE /\ pc' = "primary"
            /\ priceLog' = Append(priceLog, PriceRequest("primary", << >>))
            /\ UNCHANGED <<prices, now>>
  /\ UNCHANGED <<staticVars, accVars, httpVars, ev, runVars, clock, priceCache, map,
                 offset, batchCount, batch, idx, requests, examined, result>>

\* The primary source answers: the table is built; the fallback source is
\* queried when an id of the fallback list is missing.
PrimaryOk(rows) ==
  /\ pc = "primary"
  /\ LET m == buildMap(rows, Len(rows))
     IN  IF Len(coinGeckoIdsToFetch(m)) > 0
           THEN /\ map' = m
                /\ pc' = "fallback"
                /\ attempt' = 1
                /\ priceLog' = Append(priceLog, PriceRequest("coingecko", coinGeckoIdsToFetch(m)))
                /\ UNCHANGED <<prices, now, priceCache>>
           ELSE /\ cacheAndReturn(m)
                /\ UNCHANGED <<attempt, priceLog>>
  /\ UNCHANGED <<staticVars, accVars, delays, lastError, ev, runVars, clock,
                 offset, batchCount, batch, idx, requests, examined, result>>

\* A primary failure that is answered with an empty table.
PrimaryFail_swallow(error) ==
  /\ pc = "primary"
  /\ lastError' = error
  /\ cacheAndReturn(<< >>)
  /\ UNCHANGED <<staticVars, accVars, attempt, delays, ev, runVars, clock, priceLog,
                 offset, batchCount, batch, idx, requests, examined, result>>

\* The primary request fails: axios.get throws, nothing catches it in
\* fetchPricesOnce or in the aggregation function.
PrimaryFail(error) ==
  /\ pc = "primary"
  /\ lastError' = error
  /\ pc' = "failed"
  /\ result' = [kind |-> "error", error |-> error]
  /\ UNCHANGED <<staticVars, accVars, attempt, delays, ev, runVars, priceVars, prices, now,
                 offset, batchCount, batch, idx, requests, examined>>

\* fetchFromCoinGecko succeeds: found prices are merged in for the ids still
\* missing, the table is cached and returned.
FallbackOk(data) ==
  /\ pc = "fallback"
  /\ cacheAndReturn(mergeFallback(map, coinGeckoResult(data)))
  /\ attempt' = 0
  /\ UNCHANGED <<staticVars, accVars, delays, lastError, ev, runVars, clock, priceLog,
                 offset, batchCount, batch, idx, requests, examined, result>>

\* fetchFromCoinGecko: a throttled, 5xx or timed-out attempt is retried
\* after the backoff delay while attempts remain.
FallbackRetry(error) ==
  /\ pc = "fallback"
  /\ fallbackRetryable(attempt, error)
  /\ lastError' = error
  /\ delays' = Append(delays, fallbackDelay(attempt, error))
  /\ attempt' = attempt + 1
  /\ priceLog' = Append(priceLog, PriceRequest("coingecko", coinGeckoIdsToFetch(map)))
  /\ UNCHANGED <<staticVars, accVars, ev, runVars, clock, priceCache, map, prices, now,
                 offset, batchCount, batch, idx, pc, requests, examined, result>>

\* A fallback failure that is rethrown to the caller.
FallbackGiveUp_throw(error) ==
  /\ pc = "fallback"
  /\ ~fallbackRetryable(attempt, error)
  /\ lastError' = error
  /\ pc' = "failed"
  /\ result' = [kind |-> "error", error |-> error]
  /\ UNCHANGED <<staticVars, accVars, attempt, delays, ev, runVars, priceVars, prices, now,
                 offset, batchCount, batch, idx, requests, examined>>

\* fetchFromCoinGecko gives up: it warns and returns {}, so the primary
\* table is cached and returned as it is.
FallbackGiveUp(error) ==
  /\ pc = "fallback"
  /\ ~fallbackRetryable(attempt, error)
  /\ lastError' = error
  /\ cacheAndReturn(mergeFallback(map, << >>))
  /\ UNCHANGED <<staticVars, accVars, attempt, delays, ev, runVars, clock, priceLog,
                 offset, batchCount, batch, idx, requests, examined, result>>

\* Instants at which the clock is read, around one and two cache lifetimes.
ClockValues ==
  {Now0 + PRICE_CACHE_TTL - 1, Now0 + PRICE_CACHE_TTL, Now0 + PRICE_CACHE_TTL + 1,
   Now0 + 2 * PRICE_CACHE_TTL}

\* Time passes while a call awaits a price source or between two calls.
Tick ==
  /\ pc \in {"start", "primary", "fallback", "done", "failed"}
  /\ \E t \in ClockValues : t > clock /\ clock' = t
  /\ UNCHANGED <<staticVars, accVars, loopVars, httpVars, ev, runVars, now, prices,
                 priceCache, map, priceLog>>

\* The server handles the next request: a new call with fresh locals.
NewRun ==
  /\ pc \in {"done", "failed"}
  /\ self < MaxRuns
  /\ LocalsBecome(FreshLocals)
  /\ self' = self + 1
  /\ UNCHANGED <<staticVars, clock, priceCache, priceLog, other>>

\* Calls of getSwapMetrics served one after another by one process.
InitPrices ==
  /\ LocalsAre(FreshLocals)
  /\ NoLeaders
  /\ clock = Now0
  /\ priceCache = NoCache
  /\ priceLog = << >>
  /\ other = FreshLocals
  /\ self = 1
  /\ variant \in {"swapMetrics", "nproSummary"}
  /\ useIn = TRUE
  /\ limit = 1
  /\ maxEvents = 0
  /\ userLists = NoUserLists
  /\ stream \in {<< >>, <<GoodAt(Recent)>>}

NextPrices ==
  \/ Tick
  \/ PriceCall
  \/ \E rows \in PrimaryAnswers : PrimaryOk(rows)
  \/ \E error \in HttpErrors : PrimaryFail(error)
  \/ \E data \in CoinGeckoAnswers : FallbackOk(data)
  \/ \E error \in HttpErrors : FallbackRetry(error)
  \/ \E error \in HttpErrors : FallbackGiveUp(error)
  \/ RequestPage
  \/ HttpOk
  \/ FoldStep
  \/ EndOfPage
  \/ NewRun

SpecPrices == InitPrices /\ [][NextPrices]_vars

\* ---------------------------------------------------- price resolver claims
\* The table keeps every entry of the primary table m unchanged.
KeepsPrimary(m, table) ==
  \A id \in DOMAIN m : id \in DOMAIN table /\ table[id] = m[id]

\* C16: while fetchPricesOnce waits for the fallback source, no answer and
\* no failure of that source (error status, timeout, exhausted retries) makes
\* the call fail: it returns the table built from the primary source, and
\* after a failure the ids that stayed unresolved are simply absent.
C16_FallbackNeverFails ==
  [][pc = "fallback" =>
       /\ pc' \in {"fallback", "loop"}
       /\ result' = NoResult
       /\ pc' = "loop" =>
            /\ KeepsPrimary(map, prices')
            /\ DOMAIN prices' \ DOMAIN map \subseteq FallbackIds
            /\ attempt' # 0 => prices' = map]_vars

\* The fallback source failed three times with a 503 and the call returned
\* the primary table, without a kaito price.
C16_Witness ==
  /\ pc = "loop"
  /\ requests = << >>
  /\ attempt = FallbackRetries
  /\ lastError.status = 503
  /\ Len(delays) = 2
  /\ "near" \in DOMAIN prices
  /\ "kaito" \notin DOMAIN prices
  /\ priceCache.isSet /\ priceCache.prices = prices

\* C17: when the primary request fails (it is only sent when no unexpired
\* cached table exists), the failure leaves fetchPricesOnce and the
\* aggregation function: no table is returned, the fallback source is not
\* queried, the price cache stays as it was, and the run ends with the error
\* and no report.
C17_PrimaryFailureFatal ==
  [][/\ (pc = "primary" /\ lastError' # NoError) =>
          /\ ~cacheIsFresh
          /\ pc' = "failed"
          /\ result' = [kind |-> "error", error |-> lastError']
          /\ prices' = << >>
          /\ priceLog' = priceLog
          /\ priceCache' = priceCache
     /\ pc' = "failed" => result'.kind = "error"]_vars

\* The second call found an expired cache, its primary request failed: the
\* run failed before any page request and the expired entry is still there.
C17_Witness ==
  /\ self = 2
  /\ pc = "failed"
  /\ result.kind = "error"
  /\ requests = << >>
  /\ priceCache.isSet
  /\ clock - priceCache.timestamp >= PRICE_CACHE_TTL
  /\ priceLog[Len(priceLog)] = PriceRequest("primary", << >>)

\* A call of fetchPricesOnce passes the cache test.
CallStep == pc = "start" /\ pc' # "start"

\* A call that queried the primary source ends (returns or throws).
FetchEnds == pc \in {"primary", "fallback"} /\ pc' \notin {"primary", "fallback"}

\* The cache rule of a call made while a cache entry exists.
CacheRule ==
  (CallStep /\ priceCache.isSet) =>
     IF clock - priceCache.timestamp < PRICE_CACHE_TTL
       THEN /\ pc' = "loop"
            /\ prices' = priceCache.prices
            /\ priceLog' = priceLog
            /\ priceCache' = priceCache
       ELSE /\ pc' = "primary"
            /\ priceLog' = Append(priceLog, PriceRequest("primary", << >>))

CacheReplaced ==
  /\ priceCache'.isSet
  /\ priceCache'.timestamp = clock
  /\ priceCache'.prices = prices'

\* C18: a call of fetchPricesOnce made less than 5 minutes after the last
\* successful fetch returns the cached table without contacting the primary
\* or the fallback source; a call made 5 minutes or more after it queries
\* the primary source again, and the table that fetch returns replaces the
\* cache entry and its timestamp (a fetch whose primary request fails
\* returns no table and leaves the entry as it was).
C18_CacheTTL ==
  [][/\ CacheRule
     /\ (FetchEnds /\ priceCache.isSet /\ pc' = "loop") => CacheReplaced
     /\ (FetchEnds /\ priceCache.isSet /\ pc' # "loop") =>
           (pc' = "failed" /\ priceCache' = priceCache)]_vars

\* The second call was made exactly 5 minutes after the fetch of the first
\* one (cached at Now0) and is querying the primary source again.
C18_Witness ==
  /\ self = 2
  /\ pc = "primary"
  /\ priceCache.isSet
  /\ priceCache.timestamp = Now0
  /\ clock = Now0 + PRICE_CACHE_TTL
  /\ priceLog[Len(priceLog)] = PriceRequest("primary", << >>)

Last(seq) == seq[Len(seq)]

\* C19: the fallback source is queried only for the ids of the fallback list
\* that the primary table lacks (one request id per missing id, and no
\* request when none is missing), and no price of the primary table is
\* replaced by a fallback price.
C19_FallbackOnlyMissing ==
  [][/\ (priceLog' # priceLog /\ Last(priceLog').source = "coingecko") =>
          LET ids == Last(priceLog').ids
              missing == FallbackIds \ DOMAIN map'
          IN  /\ missing # {}
              /\ {ids[i] : i \in DOMAIN ids} = {coinGeckoIdOf(id) : id \in missing}
              /\ Len(ids) = Cardinality(missing)
     /\ (pc = "primary" /\ pc' = "loop") =>
          (FallbackIds \subseteq DOMAIN prices' /\ priceLog' = priceLog)
     /\ (pc = "fallback" /\ pc' = "loop") => KeepsPrimary(map, prices')]_vars

\* kaito and npro were missing; the fallback answered kaito = 2 together
\* with a price of 100 for arbitrum, whose primary price of 0 was kept.
C19_Witness ==
  /\ pc = "loop"
  /\ requests = << >>
  /\ Last(priceLog) = PriceRequest("coingecko", <<"kaito", "npro">>)
  /\ {"arbitrum", "kaito"} \subseteq DOMAIN prices
  /\ prices["arbitrum"] = 0
  /\ prices["kaito"] = 2
  /\ "npro" \notin DOMAIN prices

\* --------------------------------------------------- two interleaved runs
\* Where a call is suspended (or not started, or finished): the event loop
\* can run the other call only from these points.
AwaitPoints == {"start", "primary", "fallback", "http", "done", "failed"}

\* A switch that leaves the global window accumulators in place, as if they
\* were module-level state shared by the calls.
Switch_sharedMetrics ==
  /\ pc \in AwaitPoints
  /\ other.pc \notin {"done", "failed"}
  /\ LocalsBecome([other EXCEPT !.metrics = metrics])
  /\ other' = Locals
  /\ self' = 3 - self
  /\ UNCHANGED <<staticVars, clock, priceCache, priceLog>>

\* The executing call is suspended at an await and the other call resumes:
\* the locals of the two calls change places, the module state stays.
Switch ==
  /\ pc \in AwaitPoints
  /\ other.pc \notin {"done", "failed"}
  /\ LocalsBecome(other)
  /\ other' = Locals
  /\ self' = 3 - self
  /\ UNCHANGED <<staticVars, clock, priceCache, priceLog>>

\* Primary answers that price both tokens of the events, differently.
PairPrimaryAnswers ==
  {<<Row("near", "2"), Row("usd-coin", "100")>> \o AllFallbackRows,
   <<Row("near", "100"), Row("usd-coin", "2")>>}

\* The failure of the model's two interleaved runs: a request rejected
\* with a status that no retry rule covers.
PairError == HttpError(400, FALSE, "ERR_BAD_REQUEST", 0)

PairEvents ==
  {GoodAt(Recent),
   Event(Now0 - D7 - 1, "bob.near", "2", "100", "intents:near", "intents:usdc")}

\* Two simultaneous requests: two calls of getSwapMetrics over one event
\* source, interleaved at their awaits.
InitPair ==
  /\ LocalsAre(FreshLocals)
  /\ NoLeaders
  /\ clock = Now0
  /\ priceCache = NoCache
  /\ priceLog = << >>
  /\ other = FreshLocals
  /\ self = 1
  /\ variant \in {"swapMetrics", "nproSummary"}
  /\ useIn = TRUE
  /\ limit = 1
  /\ maxEvents = 0
  /\ userLists = NoUserLists
  /\ stream \in UNION {[1..n -> PairEvents] : n \in 0..MaxPair}

NextPair ==
  \/ Switch
  \/ PriceCall
  \/ \E rows \in PairPrimaryAnswers : PrimaryOk(rows)
  \/ PrimaryFail(PairError)
  \/ FallbackOk(<< >>)
  \/ RequestPage
  \/ HttpOk
  \/ HttpThrow(PairError)
  \/ FoldStep
  \/ EndOfPage

SpecPair == InitPair /\ [][NextPair]_vars

\* C15: of two getSwapMetrics runs interleaved at their awaits, each returns
\* the report of a run alone over the same events and its own price table:
\* every event examined once, the all-time total of exactly the stream, no
\* diagnostics from the other run; and two runs with the same prices and the
\* same clock reading return the same report.
C15_RunsIsolated ==
  /\ result.kind = "report" =>
       /\ result.examined = AllPositions
       /\ result.metrics.allTime = allTimeOf(stream)
       /\ result.notes = diags0
  /\ (result.kind = "report" /\ other.result.kind = "report"
        /\ prices = other.prices /\ now = other.now) => result = other.result

\* Both runs queried the primary source before either had cached a table,
\* got different tables, and both returned a report over two events.
C15_Witness ==
  /\ result.kind = "report"
  /\ other.result.kind = "report"
  /\ Len(stream) = 2
  /\ Len(priceLog) >= 2
  /\ priceLog[1].run # priceLog[2].run
  /\ prices # other.prices
  /\ result.metrics.allTime.swaps = 2
  /\ other.result.metrics.allTime.swaps = 2

\* ------------------------------------------------- unit correction (C20)
CutoverTimes == {tonFixDate - 1, tonFixDate, tonFixDate + 1}

\* The USD volume of an amount: divided by 1000 exactly for the corrected
\* price id strictly before the cutover.
CorrectionRule(amount, priceId, eventTime) ==
  IF priceId = "the-open-network" /\ eventTime < tonFixDate
    THEN (amount * prices[priceId] * VolScale) \div 1000
    ELSE amount * prices[priceId] * VolScale

RankAmounts == <<"100", "2", "0", "-5">>
RankTimes == <<Recent, Now0 - H24 - 1, Now0 - D7 - 1, Now0 - D30 - 1>>
RankTokens == <<"intents:near", "intents:usdc">>

RankEvent(i, a, keys) ==
  LET k == i % keys
      amt == RankAmounts[((i * a) % 4) + 1]
  IN  Event(RankTimes[((i \div 2) % 4) + 1], "u" \o ToString(k) \o ".near", amt, amt,
            RankTokens[(k % 2) + 1], "t" \o ToString(k))

InitRank ==
  /\ InitRun
  /\ variant \in {"swapMetrics", "nproSummary", "feeLeaders"}
  /\ useIn = TRUE
  /\ limit = 16
  /\ maxEvents = 0
  /\ userLists = NoUserLists
  /\ \E a \in {1, 3}, keys \in {5, MaxRank - 1, MaxRank} :
        stream = [i \in 1..MaxRank |-> RankEvent(i, a, keys)]
  /\ pc = "loop"

NextRank ==
  \/ RequestPage
  \/ HttpOk
  \/ FoldStep
  \/ EndOfPage

SpecRank == InitRank /\ [][NextRank]_vars

\* The entries of the Map of a ranked list that pass the list's filter
\* (positions in insertion order: the order in which keys were first seen).
candidatesOf(name) ==
  LET rs == RankSpecs[name]
      m == mapNamed(rs.of)
  IN  {i \in DOMAIN m : passesFilter(m[i][2], rs.by, rs.filtered)}

candidateMetric(name, i) == metricOf(mapNamed(RankSpecs[name].of)[i][2], RankSpecs[name].by)

firstSeen(name, key) == MapIndex(mapNamed(RankSpecs[name].of), key)

\* Candidates that rank before the given entry: a larger metric, or the same
\* metric and an earlier first observation.
rankedBefore(name, row) ==
  {c \in candidatesOf(name) :
     \/ candidateMetric(name, c) > row.metric
     \/ candidateMetric(name, c) = row.metric /\ c < firstSeen(name, row.key)}

\* C21: every ranked list of a report holds at most 30 entries, each one an
\* entry of its Map (with that entry's metric) that passes the list's filter;
\* the list is in non-increasing order of the metric, entries with equal
\* metric are in the order in which their keys were first observed, and
\* fewer than 30 candidates rank before any listed entry (only the largest
\* 30 are listed).
C21_RankedLists ==
  result.kind = "report" =>
    \A name \in DOMAIN result.ranked :
      LET L == result.ranked[name]
      IN  /\ Len(L) <= TopN
          /\ \A j \in DOMAIN L :
               /\ MapHas(mapNamed(RankSpecs[name].of), L[j].key)
               /\ firstSeen(name, L[j].key) \in candidatesOf(name)
               /\ L[j].metric = candidateMetric(name, firstSeen(name, L[j].key))
               /\ Cardinality(rankedBefore(name, L[j])) < TopN
          /\ \A i, j \in DOMAIN L :
               i < j =>
                 /\ L[i].metric >= L[j].metric
                 /\ L[i].key # L[j].key
                 /\ L[i].metric = L[j].metric =>
                      firstSeen(name, L[i].key) < firstSeen(name, L[j].key)

\* A report of getSwapMetrics over more than 30 accounts: the list of top
\* swappers by volume is full, two of its entries tie, and an account that
\* ties with the last listed one was cut.
C21_Witness ==
  /\ result.kind = "report"
  /\ variant = "swapMetrics"
  /\ Len(accounts) > TopN
  /\ LET L == result.ranked.topSwappersByVolume
     IN  /\ Len(L) = TopN
         /\ \E i \in 1..(TopN - 1) : L[i].metric = L[i + 1].metric
         /\ \E c \in DOMAIN accounts :
              /\ accounts[c][2].volumeUSD = L[TopN].metric
              /\ \A j \in DOMAIN L : L[j].key # accounts[c][1]

\* ------------------------------------------------------ the event ceiling
\* C22: with MAX_EVENTS = N > 0 only the first N events of the stream are
\* processed: no event at stream position N + 1 or later enters the
\* per-event fold (none is examined, counted or recorded in diagnostics).
C22_CeilingPrefix ==
  (hasCeiling /\ maxEvents > 0) =>
     \A j \in DOMAIN examined : examined[j] <= maxEvents

\* ------------------------------------------------ the classifier on its own
\* The token identifiers the classifier is applied to: every native id and
\* every intent id of the equivalence table, spellings that differ in case
\* or carry blanks, meme-cooking ids, unknown ids and the empty string.
TokenIds ==
  DOMAIN nativeToIntentMap
  \cup {nativeToIntentMap[n] : n \in DOMAIN nativeToIntentMap}
  \cup {"Intents:NEAR", "NEAR-NATIVE", "Intents:USDC", " intents:usdc ", " near-native",
        "gnear-229.meme-cooking.near", "noear-324.meme-cooking.near",
        "lonk-1.meme-cooking.near", "intents:gnear", "intents:kaito", "intents:ton",
        "intents:unknown", "xyz:unknown", ""}

InitClassify ==
  /\ InitRun
  /\ variant = "swapMetrics"
  /\ useIn = TRUE
  /\ limit = 1
  /\ maxEvents = 0
  /\ userLists = NoUserLists
  /\ \E a \in TokenIds, b \in TokenIds :
        stream = <<Event(Recent, "alice.near", "100", "100", a, b)>>
  /\ pc = "classify"

\* isDepositWithdrawPair on the pair of the event and on the swapped pair,
\* intentsToPriceId on each leg.
Classify ==
  /\ pc = "classify"
  /\ pc' = "classified"
  /\ LET a == stream[1].token_in_id
         b == stream[1].token_out_id
     IN  result' = [kind |-> "classified", tokenInId |-> a, tokenOutId |-> b,
                    isDepositWithdraw |-> isDepositWithdrawPair(a, b),
                    swapped |-> isDepositWithdrawPair(b, a),
                    priceIdIn |-> intentsToPriceId(a),
                    priceIdOut |-> intentsToPriceId(b)]
  /\ UNCHANGED <<cfgVars, accVars, httpVars, ev, offset, batchCount, batch, idx,
                 requests, examined>>

NextClassify == Classify

SpecClassify == InitClassify /\ [][NextClassify]_vars

\* b is the intent equivalent of the native token a, compared
\* case-insensitively.
IsEquivalentOf(a, b) ==
  \E n \in DOMAIN nativeToIntentMap :
     toLowerCase(a) = toLowerCase(n) /\ toLowerCase(b) = toLowerCase(nativeToIntentMap[n])

C24_MemeTokenPrice ==
  (pc = "classified" /\ result.tokenInId = "gnear-229.meme-cooking.near") =>
     result.priceIdIn = "near"

\* C29: for every entry of the native -> intent table, the native id and its
\* intent equivalent resolve through intentsToPriceId to the same non-null
\* price id (so a deposit or withdrawal is valued alike on either leg).
C29_EquivalentsSamePrice ==
  (pc = "classified" /\ IsEquivalentOf(result.tokenInId, result.tokenOutId)) =>
     /\ result.priceIdIn # NULL
     /\ result.priceIdIn = result.priceIdOut

\* --------------------------------------------------- one page at a time
\* The stream positions of the page of the k-th request.
pagePositions(k) ==
  (requests[k][1] + 1)..Min(requests[k][1] + requests[k][2], Len(stream))

examinedSet == {examined[j] : j \in DOMAIN examined}

\* C25: a page request is issued only while no page fetch is in flight and
\* after every event of the page requested before it has been folded, and
\* the events are folded in the order the source returned them (ascending
\* stream positions, each page from its first event on without a gap).
C25_OnePageAtATime ==
  [][/\ IssuesRequest =>
          /\ pc = "loop" /\ attempt = 0
          /\ pc' = "http" /\ attempt' = 1
          /\ requests # << >> => pagePositions(Len(requests)) \subseteq examinedSet
     /\ FoldTaken =>
          /\ pc = "fold" /\ attempt = 0
          /\ requests' = requests
          /\ LET pos == examined'[Len(examined')]
             IN  /\ ev' = stream[pos]
                 /\ pos \in pagePositions(Len(requests))
                 /\ \A j \in DOMAIN examined : examined[j] < pos
                 /\ \A q \in pagePositions(Len(requests)) : q < pos => q \in examinedSet]_vars

\* The second page was requested after both events of the first page were
\* folded, and its fetch is in flight.
C25_Witness ==
  /\ limit = 2
  /\ Len(stream) = 3
  /\ Len(requests) = 2
  /\ requests[2] = <<2, 2>>
  /\ examined = <<1, 2>>
  /\ pc = "http"

\* ------------------------------------------------- accumulator life cycle
\* Every key of the Map keeps its position, and keys are only appended.
KeysKept(m, n) ==
  /\ Len(m) <= Len(n)
  /\ \A i \in DOMAIN m : n[i][1] = m[i][1]
  /\ Cardinality(MapKeys(n)) = Len(n)

\* The step added the key (when the condition holds) and no other key,
\* bumped the swap count of that key only, and left every other entry as it
\* was.
EntryRule(m, n, cond, key) ==
  /\ MapKeys(n) = MapKeys(m) \cup (IF cond THEN {key} ELSE {})
  /\ \A k \in MapKeys(m) : (~cond \/ k # key) => MapGet(n, k) = MapGet(m, k)
  /\ cond => MapGet(n, key).swaps = (IF MapHas(m, key) THEN MapGet(m, key).swaps ELSE 0) + 1

\* C26: the key sets of tradingPairs, feeSwapPairs and accounts only grow
\* (no key is removed, moved or duplicated); a counted event that names a
\* pair creates or bumps the entry of exactly that ordered pair, so (A,B) and
\* (B,A) are separate entries; a counted event with a non-empty account id
\* creates or bumps exactly that account's entry, so the number of accounts
\* (totalUniqueAccounts) grows by one exactly when a counted event names a
\* non-empty account id not seen before.
C26_KeysOnlyGrow ==
  [][/\ KeysKept(tradingPairs, tradingPairs')
     /\ KeysKept(feeSwapPairs, feeSwapPairs')
     /\ KeysKept(accounts, accounts')
     /\ (FoldTaken /\ isGetSwapMetrics) =>
          LET a == tokenInOf(ev')
              b == tokenOutOf(ev')
          IN  /\ EntryRule(tradingPairs, tradingPairs', Counted /\ a # "" /\ b # "",
                           a \o " -> " \o b)
              /\ a # b => (a \o " -> " \o b) # (b \o " -> " \o a)
     /\ (FoldTaken /\ variant = "swapMetrics") =>
          LET accountId == Coalesce(ev'.account_id, "")
              named == Counted /\ accountId # ""
          IN  /\ EntryRule(accounts, accounts', named, accountId)
              /\ Len(accounts') =
                   Len(accounts) + (IF named /\ ~MapHas(accounts, accountId) THEN 1 ELSE 0)]_vars

\* getSwapMetrics counted a swap A -> B and a swap B -> A of one account:
\* two pair entries with one swap each, one account entry with two swaps.
C26_Witness ==
  /\ variant = "swapMetrics"
  /\ MapKeys(tradingPairs) =
       {"near-native -> intents:near", "intents:near -> near-native"}
  /\ \A k \in MapKeys(tradingPairs) : MapGet(tradingPairs, k).swaps = 1
  /\ Len(accounts) = 1
  /\ accounts[1][2].swaps = 2

\* ------------------------------------------------------- nested counters
\* C27: after every folded event the global window counters are nested:
\* last24h.swaps + previous24h.swaps <= last7d.swaps,
\* last7d.swaps + previous7d.swaps <= last30d.swaps and
\* last30d.swaps + previous30d.swaps <= allTime.swaps.
C27_WindowsNested ==
  /\ metrics.last24h.swaps + metrics.previous24h.swaps <= metrics.last7d.swaps
  /\ metrics.last7d.swaps + metrics.previous7d.swaps <= metrics.last30d.swaps
  /\ metrics.last30d.swaps + metrics.previous30d.swaps <= metrics.allTime.swaps

\* getSwapMetrics folded one event of the last 24 hours and one of the 24
\* hours before: both are in the 7-day window.
C27_Witness ==
  /\ variant = "swapMetrics"
  /\ idx = 2
  /\ metrics.last24h.swaps = 1
  /\ metrics.previous24h.swaps = 1
  /\ metrics.last7d.swaps = 2
  /\ metrics.previous7d.swaps = 0
  /\ metrics.allTime.swaps = 2

\* ------------------------------------------------------- fee sub-totals
\* The swap count of one entry for a window name ("allTime": the entry's own).
swapsIn(x, w) == IF w = "allTime" THEN x.swaps ELSE x[w].swaps

\* The sum of that count over the first n entries of a Map.
RECURSIVE sumSwaps(_, _, _)
sumSwaps(m, w, n) ==
  IF n = 0 THEN 0 ELSE sumSwaps(m, w, n - 1) + swapsIn(m[n][2], w)

RECURSIVE sumFeeSwaps(_, _)
sumFeeSwaps(m, n) ==
  IF n = 0 THEN 0 ELSE sumFeeSwaps(m, n - 1) + m[n][2].feeSwaps

\* C28: after every folded event of getSwapMetrics, for all time and for
\* each of the 24h, 7d and 30d windows, the fee-swap total equals the sum of
\* swaps over the feeSwapPairs entries, which is at most the sum of swaps
\* over the tradingPairs entries, which is at most the global swap count; and
\* the sum of feeSwaps over all accounts is at most feeSwaps.allTime.swaps.
C28_FeeChain ==
  variant = "swapMetrics" =>
    /\ \A w \in DOMAIN feeSwaps :
         /\ feeSwaps[w].swaps = sumSwaps(feeSwapPairs, w, Len(feeSwapPairs))
         /\ sumSwaps(feeSwapPairs, w, Len(feeSwapPairs))
              <= sumSwaps(tradingPairs, w, Len(tradingPairs))
         /\ sumSwaps(tradingPairs, w, Len(tradingPairs)) <= metrics[w].swaps
    /\ sumFeeSwaps(accounts, Len(accounts)) <= feeSwaps.allTime.swaps

\* A fee swap without account id and a deposit were folded: every inequality
\* of the chain is strict.
C28_Witness ==
  /\ variant = "swapMetrics"
  /\ Len(accounts) = 1
  /\ sumFeeSwaps(accounts, Len(accounts)) = 0
  /\ feeSwaps.allTime.swaps = 1
  /\ Len(feeSwapPairs) = 1
  /\ sumSwaps(tradingPairs, "allTime", Len(tradingPairs)) = 2
  /\ Len(tradingPairs) = 2
  /\ metrics.allTime.swaps = 2

\* ---------------------------------------------------------- getFeeLeaders
CACHE_TTL == 5 * 60             \* 5 minutes in-memory TTL
StaleIn == 60                   \* `+ 60000`: a file-cached report is stale in 1 min

\* What computeFeeLeaders returns: the report is identified by the instant
\* at which it was assembled (generatedAt).
leadersReport == [kind |-> "report", generatedAt |-> clock]

\* A report written to CACHE_FILE by an earlier process.
OldReport == [kind |-> "report", generatedAt |-> Now0 - 3600]

\* memoryCache && (Date.now() - memoryCache.timestamp) < CACHE_TTL
memoryFresh == memoryCache.isSet /\ (clock - memoryCache.timestamp) < CACHE_TTL

callEnds(c, how, data) ==
  calls' = [calls EXCEPT ![c] = [pc |-> IF how = "error" THEN "failed" ELSE "returned",
                                 how |-> how, result |-> data, at |-> clock]]

\* getFeeLeaders up to its await: the in-memory report is returned, or
\* computeFeeLeaders is started.
GetFeeLeaders(c) ==
  /\ calls[c].pc = "idle"
  /\ \A d \in 1..(c - 1) : calls[d].pc # "idle"
  /\ IF memoryFresh
       THEN callEnds(c, "memory", memoryCache.data)
       ELSE calls' = [calls EXCEPT ![c].pc = "computing"]
  /\ UNCHANGED <<memoryCache, cacheFile, clock>>
  /\ UNCHANGED <<variant, useIn, limit, maxEvents, now, prices, userLists, stream,
                 priceCache, map, priceLog, runVars, accVars, loopVars, httpVars, ev>>

\* computeFeeLeaders resolves: both caches are updated (a failed file write
\* is only logged) and the report is returned.
ComputeOk(c, saved) ==
  /\ calls[c].pc = "computing"
  /\ memoryCache' = [isSet |-> TRUE, data |-> leadersReport, timestamp |-> clock]
  /\ cacheFile' = IF saved THEN [exists |-> TRUE, data |-> leadersReport] ELSE cacheFile
  /\ callEnds(c, "computed", leadersReport)
  /\ UNCHANGED <<variant, useIn, limit, maxEvents, now, prices, userLists, stream,
                 priceVars, runVars, accVars, loopVars, httpVars, ev>>

\* computeFeeLeaders rejects: the catch block falls back to the file cache,
\* or rethrows.
ComputeFail(c, error) ==
  /\ calls[c].pc = "computing"
  /\ IF cacheFile.exists
       THEN /\ memoryCache' = [isSet |-> TRUE, data |-> cacheFile.data,
                               timestamp |-> clock - CACHE_TTL + StaleIn]
            /\ callEnds(c, "file", cacheFile.data)
       ELSE /\ memoryCache' = memoryCache
            /\ callEnds(c, "error", [kind |-> "error", error |-> error])
  /\ UNCHANGED cacheFile
  /\ UNCHANGED <<variant, useIn, limit, maxEvents, now, prices, userLists, stream,
                 priceVars, runVars, accVars, loopVars, httpVars, ev>>

LeadersClock ==
  {Now0 + StaleIn - 1, Now0 + StaleIn, Now0 + CACHE_TTL - 1, Now0 + CACHE_TTL,
   Now0 + CACHE_TTL + StaleIn}

\* Time passes between calls and while computations are awaited.
LeadersTick ==
  /\ \E t \in LeadersClock : t > clock /\ clock' = t
  /\ UNCHANGED <<variant, useIn, limit, maxEvents, now, prices, userLists, stream,
                 priceCache, map, priceLog, runVars, leaderVars, accVars, loopVars,
                 httpVars, ev>>

\* One process serving up to MaxCalls calls of getFeeLeaders that may
\* overlap, started with or without a cache file left by an earlier process.
InitLeaders ==
  /\ LocalsAre(FreshLocals)
  /\ clock = Now0
  /\ priceCache = NoCache
  /\ priceLog = << >>
  /\ other = FreshLocals
  /\ self = 1
  /\ variant = "feeLeaders"
  /\ useIn = TRUE
  /\ limit = 1
  /\ maxEvents = 0
  /\ userLists = NoUserLists
  /\ stream = << >>
  /\ memoryCache = NoMemoryCache
  /\ cacheFile \in {NoFile, [exists |-> TRUE, data |-> OldReport]}
  /\ calls = [c \in 1..MaxCalls |-> NoCall]

NextLeaders ==
  \/ \E c \in 1..MaxCalls : GetFeeLeaders(c)
  \/ \E c \in 1..MaxCalls, saved \in BOOLEAN : ComputeOk(c, saved)
  \/ \E c \in 1..MaxCalls : ComputeFail(c, PairError)
  \/ LeadersTick

SpecLeaders == InitLeaders /\ [][NextLeaders]_vars

\* The call c is made in this step.
StartsCall(c) == calls[c].pc = "idle" /\ calls'[c].pc # "idle"

\* The computation of call c fails in this step.
FailsCompute(c) == calls[c].pc = "computing" /\ calls'[c].how \in {"file", "error"}

\* A computation succeeded less than 5 minutes ago.
RecentSuccess ==
  \E d \in 1..MaxCalls : calls[d].how = "computed" /\ clock - calls[d].at < CACHE_TTL

\* C30: a call of getFeeLeaders made within 5 minutes of the last successful
\* computation returns the in-memory result without recomputing; when a
\* computation fails and a file cache exists, the file-cached report is
\* returned and stored in memory so that it expires 1 minute later; when a
\* computation fails and no file cache exists, the error is rethrown and the
\* in-memory cache is unchanged.
C30_FeeLeadersCache ==
  [][\A c \in 1..MaxCalls :
       /\ (StartsCall(c) /\ RecentSuccess) =>
            /\ calls'[c].how = "memory"
            /\ memoryCache.isSet /\ calls'[c].result = memoryCache.data
       /\ (FailsCompute(c) /\ cacheFile.exists) =>
            /\ calls'[c].pc = "returned"
            /\ calls'[c].result = cacheFile.data
            /\ memoryCache'.isSet /\ memoryCache'.data = cacheFile.data
            /\ memoryCache'.timestamp + CACHE_TTL = clock + StaleIn
       /\ (FailsCompute(c) /\ ~cacheFile.exists) =>
            /\ calls'[c].pc = "failed"
            /\ calls'[c].result.kind = "error"
            /\ memoryCache' = memoryCache]_vars
====
